---------------------------- MODULE Spec2Model ----------------------------
(***************************************************************************)
(* Order-flow tick aggregation engine (jseoung/orderflow, backend).        *)
(*                                                                         *)
(* Components modelled, each with the specification that drives it:        *)
(*   inferSide            (engine/aggregation.js)       SpecInferSide      *)
(*   RingBuffer           (utils/ringBuffer.js)         SpecRing           *)
(*   FootprintAggregator  (engine/aggregation.js)       SpecFootprint,     *)
(*                                                      SpecBars           *)
(*   CvdCalculator        (engine/aggregation.js)       SpecCvd            *)
(*   AggregationEngine    (engine/AggregationEngine.js) SpecEngine,        *)
(*                                                      SpecDepth,         *)
(*                                                      SpecImbalance,     *)
(*                                                      SpecEngineAlerts   *)
(*   DomBuilder           (engine/aggregation.js)       SpecDom            *)
(*   AlertEvaluator       (engine/aggregation.js)       SpecThrottle,      *)
(*                                                      SpecAlerts         *)
(*   ReplayEngine         (engine/AggregationEngine.js, SpecReplay,        *)
(*                         storage/storage.js)          SpecReplayFair,    *)
(*                                                      SpecResume         *)
(*   FeedManager, routes  (feed/FeedManager.js,         SpecServer         *)
(*                         api/routes.js)                                  *)
(*                                                                         *)
(* Conventions.                                                            *)
(*   - A JavaScript value that may be undefined or null is a set: {} is    *)
(*     undefined/null, {v} is the value v.                                 *)
(*   - Prices are integers in a fixed price unit, timestamps are integer   *)
(*     milliseconds, trade sizes are positive integers.                    *)
(*   - FootprintAggregator volumes are held in half-units (a stored v      *)
(*     stands for v/2), so that the code's size / 2 is exact: `size`       *)
(*     contributes Whole(size) = 2*size and `size / 2` contributes         *)
(*     Half(size) = size.                                                  *)
(***************************************************************************)
EXTENDS Integers, Sequences, FiniteSets, TLC

VARIABLES
    is,          \* inferSide call: arguments and returned value
    rb,          \* RingBuffer object: capacity, buffer, head, size
    rbPushed,    \* history: items pushed since construction / last clear()
    rbCursor,    \* value returned by the last getHead(), {} when none
    rbSince,     \* history: items pushed since that getHead()
    rbCleared,   \* history: clear() was called since that getHead()
    rbN,         \* number of push calls made so far
    rbOut,       \* the last call's return value
    fp,          \* FootprintAggregator object
    fpTick,      \* argument of the last ingest call, {} when none
    fpBarTicks,  \* history: ticks ingested into the current bar
    fpDone,      \* history: every bar completed so far, in completion order
    fpN,         \* number of ingest calls made so far
    fpOut,       \* the last getCompletedBars / getCurrentBar return value
    cvd,         \* CvdCalculator object
    cvdTicks,    \* history: ticks ingested since the last resetSession()
    cvdN,        \* number of CvdCalculator.ingest calls made so far
    cvdOut,      \* the last CvdCalculator call's return value
    cvdPoints,   \* the points ingest returned since the last resetSession
    cvdLast,     \* the last tick ever ingested and the barDelta returned for it
    eng,         \* AggregationEngine object
    engN,        \* number of onTrade calls made so far
    engTwinSide, \* the side a second engine in the same state gave the
                 \* last trade, {} when no trade was ingested
    engDepthEvents,  \* the events the latest onDepth call emitted, in order
    engAlerts,   \* AggregationEngine.alerts: the configured alerts, in
                 \* insertion order
    engTape,     \* AggregationEngine.metrics.tapeSpeeds, kept under
                 \* SpecEngineAlerts
    engEmitted,  \* history, kept under SpecEngineAlerts: per alert type,
                 \* when the engine emitted its latest two 'alert' events
    dom,         \* DomBuilder object
    domN,        \* number of update calls made so far
    domInput,    \* the arguments of the latest update call
    domBefore,   \* the book (bids, asks) as it was before the latest update
    domOut,      \* the last DomBuilder call's return value
    ae,          \* AlertEvaluator object
    aeNow,       \* Date.now()
    aeN,         \* number of evaluate calls made so far
    aeOut,       \* the last AlertEvaluator call, its argument and its result
    aeFired,     \* per alert type, when an alert of it was last returned
    aeLargeLog,  \* the evaluations with metrics.isLarge so far: when each
                 \* was made and whether it returned a large_print alert
    db,          \* Database / TickStorage: the stored ticks, ordered by ts
    rpImpl,      \* which ReplayEngine class was constructed: "engine" is
                 \* the one in AggregationEngine.js, "storage" the one in
                 \* storage.js
    replay,      \* ReplayEngine object
    rpTimers,    \* the pending setTimeout callbacks of the ReplayEngine
    rpDelivered, \* the ids of the ticks handed to engine.onTrade / onTick
                 \* since the latest load, play, pause or stop call began
    rpOut,       \* the latest load, play, pause or stop call: its outcome,
                 \* and the status just before it
    rpLog,       \* history, kept under SpecResume: the ids of the ticks
                 \* delivered since the last load, in delivery order
    rpCalls,     \* number of load, play, pause and stop calls, and of
                 \* feed start and stop requests, made so far
    fm,          \* FeedManager object
    fmN,         \* number of trades the live feed emitted so far
    res          \* the latest request to the REST routes and its response

rbVars == <<rb, rbPushed, rbCursor, rbSince, rbCleared, rbN, rbOut>>
fpVars == <<fp, fpTick, fpBarTicks, fpDone, fpN, fpOut>>
cvdVars == <<cvd, cvdTicks, cvdN, cvdOut, cvdPoints, cvdLast>>
engVars == <<eng, engN, engTwinSide, engDepthEvents>>
eaVars == <<engAlerts, engTape, engEmitted>>
domVars == <<dom, domN, domInput, domBefore, domOut>>
aeVars == <<ae, aeNow, aeN, aeOut, aeFired, aeLargeLog>>
rpVars ==
    <<db, rpImpl, replay, rpTimers, rpDelivered, rpOut, rpCalls, rpLog>>
srvVars == <<fm, fmN, res>>

vars ==
    <<is, rbVars, fpVars, cvdVars, engVars, eaVars, domVars, aeVars, rpVars,
      srvVars>>

\* what an action on one component leaves alone
exceptIs == <<rbVars, fpVars, cvdVars, engVars, domVars, aeVars, rpVars,
      srvVars, eaVars>>
exceptRb == <<is, fpVars, cvdVars, engVars, domVars, aeVars, rpVars,
      srvVars, eaVars>>
exceptFp == <<is, rbVars, cvdVars, engVars, domVars, aeVars, rpVars,
      srvVars, eaVars>>
exceptCvd == <<is, rbVars, fpVars, engVars, domVars, aeVars, rpVars,
      srvVars, eaVars>>
exceptFpCvd == <<is, rbVars, engVars, domVars, aeVars, rpVars,
      srvVars, eaVars>>
exceptEng == <<is, rbVars, fpVars, cvdVars, domVars, aeVars, rpVars,
      srvVars, eaVars>>
exceptDom == <<is, rbVars, fpVars, cvdVars, engVars, aeVars, rpVars,
      srvVars, eaVars>>
exceptAe == <<is, rbVars, fpVars, cvdVars, engVars, domVars, rpVars,
      srvVars, eaVars>>
\* everything but the ReplayEngine and the engine object it feeds
exceptRp ==
    <<is, rbVars, fpVars, cvdVars, domVars, aeVars,
      engN, engTwinSide, engDepthEvents, srvVars, eaVars, rpLog>>
\* the same, for a replay whose deliveries are logged
exceptResume ==
    <<is, rbVars, fpVars, cvdVars, domVars, aeVars,
      engN, engTwinSide, engDepthEvents, srvVars, eaVars>>
\* the same, for a request to a replay route
exceptRoute ==
    <<is, rbVars, fpVars, cvdVars, domVars, aeVars,
      engN, engTwinSide, engDepthEvents, fm, fmN, eaVars, rpLog>>
\* everything a request to a feed route or a feed event leaves alone
exceptFeed ==
    <<is, rbVars, fpVars, cvdVars, domVars, aeVars,
      engN, engTwinSide, engDepthEvents,
      rpImpl, replay, rpTimers, rpDelivered, rpOut, eaVars, rpLog>>
\* everything but the engine, its alerts and the clock
exceptEngineAlerts ==
    <<is, rbVars, fpVars, cvdVars, domVars, rpVars, srvVars,
      ae, aeN, aeOut, aeFired, aeLargeLog>>

(***************************************************************************)
(* Bounds of the model.                                                    *)
(***************************************************************************)
MaxPrice == 4       \* prices range over 1..MaxPrice
MaxCapacity == 3    \* RingBuffer capacities 1..MaxCapacity
MaxPushes == 6      \* RingBuffer push calls in one behaviour
MaxN == 4           \* last(n) is called with n in 0..MaxN
MaxTicks == 3       \* ingest calls in one behaviour of SpecFootprint
MaxBarTicks == 4    \* ingest calls in one behaviour of SpecBars
MaxOhlcTicks == 4   \* ingest calls in one behaviour of SpecOhlc
MaxCvdTicks == 3    \* ingest calls in one behaviour of SpecCvd
MaxTrades == 3      \* onTrade calls in one behaviour of SpecEngine
MaxLevels == 2      \* DomBuilder is constructed with levels in 1..MaxLevels
MaxDomUpdates == 2  \* update calls in one behaviour of SpecDom
MaxEvals == 3       \* evaluate calls in one behaviour of SpecThrottle
MaxAlertEvals == 2  \* evaluate calls in one behaviour of SpecAlerts
MaxNow == 5         \* Date.now() runs from 1 to MaxNow
MaxStored == 3      \* ticks in the store
MaxCalls == 4       \* load, play, pause and stop calls in one behaviour
MaxFeedTrades == 1  \* trades the live feed emits in one behaviour
MaxAlertTrades == 2 \* onTrade calls in one behaviour of SpecEngineAlerts
MaxAlertNow == 3    \* Date.now() runs from 1 to MaxAlertNow in SpecEngineAlerts

\* Scaled-down stand-ins for the code's defaults, so that bar rotation and
\* the history caps are reached within the bounds above.
barDurationMs == 2  \* FootprintAggregator: constructor default 60000
cvdBarDurationMs == 2   \* CvdCalculator: this.barDurationMs = 60000
maxBars == 2        \* FootprintAggregator: this.maxBars = 100
maxHistory == 2     \* CvdCalculator: this.maxHistory = 500
BAR_INTERVAL_MS == 2    \* AggregationEngine.js: 60000
RING_BUFFER_SIZE == 2   \* AggregationEngine.js: 500
engineMaxBars == 2  \* AggregationEngine._ensureBar: the literal 100
throttleMs == 2     \* AlertEvaluator: this.throttleMs = 3000
deltaThreshold == 2         \* AlertEvaluator: config.deltaThreshold ?? 500
largePrintSize == 2         \* AlertEvaluator: config.largePrintSize ?? 50
tapeSpeedThreshold == 2     \* AlertEvaluator: config.tapeSpeedThreshold ?? 30
domImbalanceRatio == 2      \* AlertEvaluator: config.domImbalanceRatio ?? 5
domBalanceLevels == 1       \* AggregationEngine._analyzeDOMBalance: slice(0, 10)
LARGE_TRADE_THRESHOLD == 2  \* AggregationEngine.js
deltaAlertDefault == 2      \* AggregationEngine._checkAlerts: threshold || 500
tapeSpeedDefault == 2       \* AggregationEngine._checkAlerts: threshold || 20
tapeWindowMs == 1           \* AggregationEngine._checkAlerts: Date.now() - 1000
maxDelayMs == 2     \* storage.js ReplayEngine._scheduleNext: Math.min(delay, 5000)

\* Program constants. The price unit is half a tick.
tickSize == 2       \* FootprintAggregator: constructor default tickSize
imbalanceRatio == 3 \* FootprintAggregator: constructor default 3.0
getHistoryDefaultN == 100   \* CvdCalculator.getHistory(n = 100)
emptyBookLargeThreshold == 100  \* DomBuilder._calcLargeThreshold: return 100
largeMultiple == 3  \* DomBuilder._calcLargeThreshold: mean * 3
IMBALANCE_RATIO == 3    \* AggregationEngine.js
domAlertHigh == 250 \* AggregationEngine._checkDOMImbalance: ratio >= 2.5
domAlertLow == 40   \* AggregationEngine._checkDOMImbalance: ratio <= 0.4
biasBidHeavy == 120 \* AggregationEngine._analyzeDOMBalance: ratio > 1.2
biasAskHeavy == 80  \* AggregationEngine._analyzeDOMBalance: ratio < 0.8

Side == {"buy", "sell", "unknown"}

Opt(S) == {{}} \cup {{v} : v \in S}
Val(o) == CHOOSE v \in o : TRUE

Min2(a, b) == IF a <= b THEN a ELSE b
Max2(a, b) == IF a >= b THEN a ELSE b

RECURSIVE Reverse(_)
Reverse(s) == IF s = <<>> THEN <<>> ELSE Append(Reverse(Tail(s)), Head(s))

\* the last n elements of s, in the order of s
LastOf(s, n) == SubSeq(s, Len(s) - Min2(n, Len(s)) + 1, Len(s))

(***************************************************************************)
(* inferSide(price, prevPrice, bidPrice, askPrice)                         *)
(***************************************************************************)
inferSide_strictAsk(price, prevPrice, bidPrice, askPrice) ==
    IF bidPrice # {} /\ askPrice # {} /\ price > Val(askPrice) THEN "buy"
    ELSE IF bidPrice # {} /\ askPrice # {} /\ price <= Val(bidPrice) THEN "sell"
    ELSE IF prevPrice # {} /\ price > Val(prevPrice) THEN "buy"
    ELSE IF prevPrice # {} /\ price < Val(prevPrice) THEN "sell"
    ELSE "unknown"

inferSide(price, prevPrice, bidPrice, askPrice) ==
    IF bidPrice # {} /\ askPrice # {} /\ price >= Val(askPrice) THEN "buy"
    ELSE IF bidPrice # {} /\ askPrice # {} /\ price <= Val(bidPrice) THEN "sell"
    \* tick rule fallback
    ELSE IF prevPrice # {} /\ price > Val(prevPrice) THEN "buy"
    ELSE IF prevPrice # {} /\ price < Val(prevPrice) THEN "sell"
    ELSE "unknown"

isNew == [price |-> 1, prevPrice |-> {}, bidPrice |-> {}, askPrice |-> {},
          result |-> {}]

InitInferSideArgs ==
    \E p \in 1..MaxPrice, pv \in Opt(1..MaxPrice),
       b \in Opt(1..MaxPrice), a \in Opt(1..MaxPrice) :
        is = [price |-> p, prevPrice |-> pv, bidPrice |-> b, askPrice |-> a,
              result |-> {}]

CallInferSide ==
    /\ is.result = {}
    /\ is' = [is EXCEPT !.result =
                {inferSide(is.price, is.prevPrice, is.bidPrice, is.askPrice)}]

(***************************************************************************)
(* RingBuffer                                                              *)
(***************************************************************************)
RingBuffer_new(capacity) ==
    [capacity |-> capacity,
     buffer   |-> [i \in 0..(capacity - 1) |-> {}],
     head     |-> 0,
     size     |-> 0]

RingBuffer_push_grow(r, item) ==
    [r EXCEPT !.buffer[r.head] = {item},
              !.head = (r.head + 1) % r.capacity,
              !.size = r.size + 1]

RingBuffer_push(r, item) ==
    [r EXCEPT !.buffer[r.head] = {item},
              !.head = (r.head + 1) % r.capacity,
              !.size = IF r.size < r.capacity THEN r.size + 1 ELSE r.size]

\* result.push(buffer[(head - i + capacity) % capacity]) for i = 1..count
RECURSIVE RingBuffer_lastFrom(_, _, _)
RingBuffer_lastFrom(r, i, count) ==
    IF i > count THEN <<>>
    ELSE <<r.buffer[(r.head - i + r.capacity) % r.capacity]>>
         \o RingBuffer_lastFrom(r, i + 1, count)

RingBuffer_last_noWrap(r, n, reverse) ==
    LET count  == Min2(n, r.size)
        result == [i \in 1..Max2(count, 0) |->
                      r.buffer[Max2(r.head - i, 0)]]
    IN  IF reverse THEN result ELSE Reverse(result)

RingBuffer_last(r, n, reverse) ==
    LET count  == Min2(n, r.size)
        result == RingBuffer_lastFrom(r, 1, count)
    IN  IF reverse THEN result ELSE Reverse(result)

\* while (pos !== head) { if (buffer[pos] !== undefined) items.push(...) ... }
RECURSIVE RingBuffer_drainFrom(_, _)
RingBuffer_drainFrom(r, pos) ==
    IF pos = r.head THEN <<>>
    ELSE (IF r.buffer[pos] # {} THEN <<r.buffer[pos]>> ELSE <<>>)
         \o RingBuffer_drainFrom(r, (pos + 1) % r.capacity)

RingBuffer_drainSince_fromStart(r, lastHead) ==
    IF lastHead = r.head THEN <<>> ELSE RingBuffer_drainFrom(r, 0)

RingBuffer_drainSince(r, lastHead) ==
    IF lastHead = r.head THEN <<>> ELSE RingBuffer_drainFrom(r, lastHead)

RingBuffer_getHead(r) == r.head

RingBuffer_clear(r) == [r EXCEPT !.head = 0, !.size = 0]

\* items are stored as {v}; a returned list is shown as the list of the v
Items(list) == [i \in 1..Len(list) |-> Val(list[i])]

rbNoCall == [op |-> "none", n |-> 0, val |-> <<>>]

InitRing ==
    /\ \E c \in 1..MaxCapacity : rb = RingBuffer_new(c)
    /\ rbPushed = <<>>
    /\ rbCursor = {}
    /\ rbSince = <<>>
    /\ rbCleared = FALSE
    /\ rbN = 0
    /\ rbOut = rbNoCall

\* the items pushed are distinct objects: the i-th push call pushes item i
Push ==
    /\ rbN < MaxPushes
    /\ LET item == rbN + 1 IN
       /\ rb' = RingBuffer_push(rb, item)
       /\ rbPushed' = Append(rbPushed, item)
       /\ rbSince' = IF rbCursor = {} THEN rbSince ELSE Append(rbSince, item)
    /\ rbN' = rbN + 1
    /\ rbOut' = rbNoCall
    /\ UNCHANGED <<rbCursor, rbCleared>>

Last(n, reverse) ==
    /\ rbOut' = [op |-> IF reverse THEN "lastReversed" ELSE "last", n |-> n,
                 val |-> Items(RingBuffer_last(rb, n, reverse))]
    /\ UNCHANGED <<rb, rbPushed, rbCursor, rbSince, rbCleared, rbN>>

GetHead ==
    /\ rbCursor' = {RingBuffer_getHead(rb)}
    /\ rbSince' = <<>>
    /\ rbCleared' = FALSE
    /\ rbOut' = [op |-> "getHead", n |-> 0, val |-> <<RingBuffer_getHead(rb)>>]
    /\ UNCHANGED <<rb, rbPushed, rbN>>

DrainSince ==
    /\ rbCursor # {}
    /\ rbOut' = [op |-> "drainSince", n |-> Val(rbCursor),
                 val |-> Items(RingBuffer_drainSince(rb, Val(rbCursor)))]
    /\ UNCHANGED <<rb, rbPushed, rbCursor, rbSince, rbCleared, rbN>>

Clear ==
    /\ rb' = RingBuffer_clear(rb)
    /\ rbPushed' = <<>>
    /\ rbCleared' = (rbCursor # {})
    /\ rbOut' = rbNoCall
    /\ UNCHANGED <<rbCursor, rbSince, rbN>>

(***************************************************************************)
(* FootprintAggregator                                                     *)
(***************************************************************************)
Whole(size) == 2 * size     \* `size` in half-units
Half(size) == size          \* `size / 2` in half-units

\* Math.floor(ts / barDurationMs) * barDurationMs, ts >= 0
BarKey(ts, durationMs) == (ts \div durationMs) * durationMs

\* Math.round(price / tickSize) * tickSize; Math.round rounds halves up
FootprintAggregator_roundToTick(price) ==
    ((2 * price + tickSize) \div (2 * tickSize)) * tickSize

FootprintAggregator_new(durationMs) ==
    [barDurationMs |-> durationMs, currentBar |-> {}, completedBars |-> <<>>]

FootprintAggregator_newBar(f, ts, price) ==
    LET barOpen == BarKey(ts, f.barDurationMs)
    IN  [openTs |-> barOpen,
         closeTs |-> barOpen + f.barDurationMs,
         open |-> price, high |-> price, low |-> price, close |-> price,
         totalVolume |-> 0, totalDelta |-> 0,
         totalBidVol |-> 0, totalAskVol |-> 0,
         levels |-> <<>>,       \* price -> [bidVol, askVol, delta]
         imbalances |-> <<>>]

\* [...keys].sort((a, b) => a - b)
RECURSIVE SortAscending(_)
SortAscending(S) ==
    IF S = {} THEN <<>>
    ELSE LET m == CHOOSE x \in S : \A y \in S : x <= y
         IN  <<m>> \o SortAscending(S \ {m})

\* a / b >= r, for b > 0
RatioAtLeast_strict(a, b, r) == a > r * b

RatioAtLeast_eitherWay(a, b, r) == a >= r * b \/ b >= r * a

RatioAtLeast(a, b, r) == a >= r * b

RECURSIVE FootprintAggregator_imbalancesFrom(_, _, _)
FootprintAggregator_imbalancesFrom(levels, prices, i) ==
    IF i > Len(prices) - 1 THEN <<>>
    ELSE LET lower == levels[prices[i]]
             upper == levels[prices[i + 1]]
             ask == IF upper.bidVol > 0
                       /\ RatioAtLeast(lower.askVol, upper.bidVol, imbalanceRatio)
                    THEN <<[price |-> prices[i],
                            ratio |-> <<lower.askVol, upper.bidVol>>,
                            side |-> "ask"]>>
                    ELSE <<>>
             bid == IF lower.askVol > 0
                       /\ RatioAtLeast(upper.bidVol, lower.askVol, imbalanceRatio)
                    THEN <<[price |-> prices[i + 1],
                            ratio |-> <<upper.bidVol, lower.askVol>>,
                            side |-> "bid"]>>
                    ELSE <<>>
         IN  ask \o bid
             \o FootprintAggregator_imbalancesFrom(levels, prices, i + 1)

FootprintAggregator_finalizeBar(bar) ==
    [bar EXCEPT !.imbalances =
        FootprintAggregator_imbalancesFrom(
            bar.levels, SortAscending(DOMAIN bar.levels), 1)]

\* the levels Map becomes a plain object keyed by the same prices
FootprintAggregator_serializeBar(bar) == bar

\* completedBars.push(bar); if (length > maxBars) completedBars.shift()
FootprintAggregator_pushCompleted_noEvict(bars, bar) == Append(bars, bar)

FootprintAggregator_pushCompleted(bars, bar) ==
    LET pushed == Append(bars, bar)
    IN  IF Len(pushed) > maxBars THEN Tail(pushed) ELSE pushed

\* if (price > bar.high) ...; if (price < bar.low) ...; bar.close = price
FootprintAggregator_ohlc_lowFromHigh(bar, price) ==
    [bar EXCEPT !.high = IF price > bar.high THEN price ELSE bar.high,
                !.low = IF price < bar.high THEN price ELSE bar.low,
                !.close = price]

FootprintAggregator_ohlc(bar, price) ==
    [bar EXCEPT !.high = IF price > bar.high THEN price ELSE bar.high,
                !.low = IF price < bar.low THEN price ELSE bar.low,
                !.close = price]

\* the side branches of ingest on the level
FootprintAggregator_addToLevel_sellAdds(level, size, side) ==
    IF side = "buy"
    THEN [level EXCEPT !.askVol = @ + Whole(size), !.delta = @ + Whole(size)]
    ELSE IF side = "sell"
    THEN [level EXCEPT !.bidVol = @ + Whole(size), !.delta = @ + Whole(size)]
    ELSE [level EXCEPT !.bidVol = @ + Half(size), !.askVol = @ + Half(size)]

FootprintAggregator_addToLevel_unknownAsBuy(level, size, side) ==
    IF side = "sell"
    THEN [level EXCEPT !.bidVol = @ + Whole(size), !.delta = @ - Whole(size)]
    ELSE [level EXCEPT !.askVol = @ + Whole(size), !.delta = @ + Whole(size)]

FootprintAggregator_addToLevel(level, size, side) ==
    IF side = "buy"
    THEN [level EXCEPT !.askVol = @ + Whole(size), !.delta = @ + Whole(size)]
    ELSE IF side = "sell"
    THEN [level EXCEPT !.bidVol = @ + Whole(size), !.delta = @ - Whole(size)]
    ELSE [level EXCEPT !.bidVol = @ + Half(size), !.askVol = @ + Half(size)]

\* the side branches of ingest on the bar totals
FootprintAggregator_addToTotals_unknownDropped(bar, size, side) ==
    IF side = "buy"
    THEN [bar EXCEPT !.totalAskVol = @ + Whole(size),
                     !.totalDelta = @ + Whole(size)]
    ELSE IF side = "sell"
    THEN [bar EXCEPT !.totalBidVol = @ + Whole(size),
                     !.totalDelta = @ - Whole(size)]
    ELSE bar

FootprintAggregator_addToTotals(bar, size, side) ==
    IF side = "buy"
    THEN [bar EXCEPT !.totalAskVol = @ + Whole(size),
                     !.totalDelta = @ + Whole(size)]
    ELSE IF side = "sell"
    THEN [bar EXCEPT !.totalBidVol = @ + Whole(size),
                     !.totalDelta = @ - Whole(size)]
    ELSE [bar EXCEPT !.totalBidVol = @ + Half(size),
                     !.totalAskVol = @ + Half(size)]

FootprintAggregator_rotates_onlyFirst(f, tick) == f.currentBar = {}

\* !this.currentBar || this.currentBar.openTs !== barTs
FootprintAggregator_rotates(f, tick) ==
    \/ f.currentBar = {}
    \/ Val(f.currentBar).openTs # BarKey(tick.ts, f.barDurationMs)

FootprintAggregator_ingest(f, tick) ==
    LET rotated ==
            IF FootprintAggregator_rotates(f, tick)
            THEN [f EXCEPT
                    !.completedBars =
                        IF f.currentBar # {}
                        THEN FootprintAggregator_pushCompleted(@,
                                FootprintAggregator_serializeBar(
                                    FootprintAggregator_finalizeBar(
                                        Val(f.currentBar))))
                        ELSE @,
                    !.currentBar =
                        {FootprintAggregator_newBar(f, tick.ts, tick.price)}]
            ELSE f
        bar0 == FootprintAggregator_ohlc(Val(rotated.currentBar), tick.price)
        bar1 == [bar0 EXCEPT !.totalVolume = @ + Whole(tick.size)]
        roundedPrice == FootprintAggregator_roundToTick(tick.price)
        levels0 == IF roundedPrice \in DOMAIN bar1.levels
                   THEN bar1.levels
                   ELSE bar1.levels
                        @@ (roundedPrice :>
                              [bidVol |-> 0, askVol |-> 0, delta |-> 0])
        level == FootprintAggregator_addToLevel(
                     levels0[roundedPrice], tick.size, tick.side)
        bar2 == [bar1 EXCEPT !.levels = [levels0 EXCEPT ![roundedPrice] = level]]
        bar3 == FootprintAggregator_addToTotals(bar2, tick.size, tick.side)
    IN  [rotated EXCEPT !.currentBar = {bar3}]

\* returns the serialized current bar; finalizes it in place
FootprintAggregator_getCurrentBar(f) ==
    IF f.currentBar = {} THEN f
    ELSE [f EXCEPT !.currentBar =
            {FootprintAggregator_finalizeBar(Val(f.currentBar))}]

\* Array.prototype.slice(-n), n an integer >= 0: -0 is 0, so slice(-0) is
\* slice(0), the whole array
SliceLast(s, n) ==
    IF n = 0 THEN s ELSE SubSeq(s, Len(s) - Min2(n, Len(s)) + 1, Len(s))

FootprintAggregator_getCompletedBars(f, n) == SliceLast(f.completedBars, n)

FootprintAggregator_setBarDuration(f, ms) ==
    [f EXCEPT !.barDurationMs = ms, !.currentBar = {}]

(***************************************************************************)
(* CvdCalculator                                                           *)
(***************************************************************************)
CvdCalculator_new ==
    [sessionCvd |-> 0, barCvd |-> 0, history |-> <<>>, currentBarTs |-> {}]

CvdCalculator_delta_unknownAsBuy(tick) ==
    IF tick.side = "sell" THEN 0 - tick.size ELSE tick.size

CvdCalculator_delta_sellAdds(tick) ==
    IF tick.side = "buy" THEN tick.size
    ELSE IF tick.side = "sell" THEN tick.size ELSE 0

\* tick.side === 'buy' ? tick.size : tick.side === 'sell' ? -tick.size : 0
CvdCalculator_delta(tick) ==
    IF tick.side = "buy" THEN tick.size
    ELSE IF tick.side = "sell" THEN 0 - tick.size ELSE 0

\* history.push(point); if (history.length > maxHistory) history.shift()
CvdCalculator_pushHistory(history, point) ==
    LET pushed == Append(history, point)
    IN  IF Len(pushed) > maxHistory THEN Tail(pushed) ELSE pushed

CvdCalculator_bucketChanged_onlyFirst(c, barTs) == c.currentBarTs = {}

\* this.currentBarTs !== barTs
CvdCalculator_bucketChanged(c, barTs) == c.currentBarTs # {barTs}

\* the object after ingest(tick); the point returned is its last history entry
CvdCalculator_ingest(c, tick) ==
    LET delta == CvdCalculator_delta(tick)
        sessionCvd == c.sessionCvd + delta
        barTs == BarKey(tick.ts, cvdBarDurationMs)
        barCvd == (IF CvdCalculator_bucketChanged(c, barTs) THEN 0
                   ELSE c.barCvd) + delta
        point == [ts |-> tick.ts, cvd |-> sessionCvd, barDelta |-> barCvd]
    IN  [sessionCvd |-> sessionCvd,
         barCvd |-> barCvd,
         history |-> CvdCalculator_pushHistory(c.history, point),
         currentBarTs |-> {barTs}]

CvdCalculator_ingestReturn(c, tick) ==
    LET after == CvdCalculator_ingest(c, tick)
    IN  [ts |-> tick.ts, cvd |-> after.sessionCvd, barDelta |-> after.barCvd]

CvdCalculator_resetSession_keepsHistory(c) == [c EXCEPT !.sessionCvd = 0]

CvdCalculator_resetSession(c) ==
    [c EXCEPT !.sessionCvd = 0, !.history = <<>>]

CvdCalculator_getHistory(c, n) == SliceLast(c.history, n)

(***************************************************************************)
(* Actions on the two calculators                                          *)
(***************************************************************************)
fpNoCall == [op |-> "none", n |-> 0, val |-> <<>>]
cvdNoCall == [op |-> "none", n |-> 0, val |-> <<>>]

InitFootprint ==
    /\ fp = FootprintAggregator_new(barDurationMs)
    /\ fpTick = {}
    /\ fpBarTicks = <<>>
    /\ fpDone = <<>>
    /\ fpN = 0
    /\ fpOut = fpNoCall

InitCvd ==
    /\ cvd = CvdCalculator_new
    /\ cvdTicks = <<>>
    /\ cvdN = 0
    /\ cvdOut = cvdNoCall
    /\ cvdPoints = <<>>
    /\ cvdLast = {}

FpIngest(tick) ==
    /\ fp' = FootprintAggregator_ingest(fp, tick)
    /\ fpTick' = {tick}
    /\ fpBarTicks' = IF FootprintAggregator_rotates(fp, tick)
                     THEN <<tick>> ELSE Append(fpBarTicks, tick)
    /\ fpDone' = IF FootprintAggregator_rotates(fp, tick) /\ fp.currentBar # {}
                 THEN Append(fpDone,
                        FootprintAggregator_serializeBar(
                            FootprintAggregator_finalizeBar(Val(fp.currentBar))))
                 ELSE fpDone
    /\ fpN' = fpN + 1
    /\ fpOut' = fpNoCall

FpGetCurrentBar ==
    /\ fp' = FootprintAggregator_getCurrentBar(fp)
    /\ fpOut' = [op |-> "getCurrentBar", n |-> 0,
                 val |-> IF fp.currentBar = {} THEN <<>>
                         ELSE <<FootprintAggregator_serializeBar(
                                    Val(fp'.currentBar))>>]
    /\ UNCHANGED <<fpTick, fpBarTicks, fpDone, fpN>>

FpGetCompletedBars(n) ==
    /\ fpOut' = [op |-> "getCompletedBars", n |-> n,
                 val |-> FootprintAggregator_getCompletedBars(fp, n)]
    /\ UNCHANGED <<fp, fpTick, fpBarTicks, fpDone, fpN>>

FpSetBarDuration(ms) ==
    /\ fp' = FootprintAggregator_setBarDuration(fp, ms)
    /\ fpBarTicks' = <<>>
    /\ fpOut' = fpNoCall
    /\ UNCHANGED <<fpTick, fpDone, fpN>>

CvdIngest(tick) ==
    /\ cvd' = CvdCalculator_ingest(cvd, tick)
    /\ cvdTicks' = Append(cvdTicks, tick)
    /\ cvdN' = cvdN + 1
    /\ cvdOut' = [op |-> "ingest", n |-> 0,
                  val |-> <<CvdCalculator_ingestReturn(cvd, tick)>>]
    /\ cvdPoints' = Append(cvdPoints, CvdCalculator_ingestReturn(cvd, tick))
    /\ cvdLast' = {[tick |-> tick,
                    barDelta |-> CvdCalculator_ingestReturn(cvd, tick).barDelta]}

CvdResetSession ==
    /\ cvd' = CvdCalculator_resetSession(cvd)
    /\ cvdTicks' = <<>>
    /\ cvdPoints' = <<>>
    /\ cvdOut' = [op |-> "resetSession", n |-> 0, val |-> <<>>]
    /\ UNCHANGED <<cvdN, cvdLast>>

CvdGetHistory(n) ==
    /\ cvdOut' = [op |-> "getHistory", n |-> n,
                  val |-> CvdCalculator_getHistory(cvd, n)]
    /\ UNCHANGED <<cvd, cvdTicks, cvdN, cvdPoints, cvdLast>>

(***************************************************************************)
(* AggregationEngine.  Prices are in cents, so that price.toFixed(2) and   *)
(* parseFloat of the key are exact and a level's key is its price.  A      *)
(* trade's optional side is a set.  A depth level is the pair            *)
(* <<price, size>>.  The tapeSpeeds window and the configured alerts are   *)
(* held beside this record, in engTape and engAlerts.                      *)
(***************************************************************************)
AggregationEngine_new ==
    [dom |-> [bids |-> <<>>, asks |-> <<>>, lastUpdate |-> 0],
     trades |-> <<>>, currentBar |-> {}, completedBars |-> <<>>,
     cvd |-> 0, sessionCvd |-> 0, lastBid |-> 0, lastAsk |-> 0]

\* the values _inferSide(price) can return; Math.random() < 0.5 can go
\* either way
AggregationEngine_inferSide(e, price) ==
    IF e.lastAsk # 0 /\ price >= e.lastAsk THEN {"buy"}
    ELSE IF e.lastBid # 0 /\ price <= e.lastBid THEN {"sell"}
    \* tick rule: compare to last trade
    ELSE IF Len(e.trades) > 0
    THEN {IF price >= e.trades[Len(e.trades)].price THEN "buy" ELSE "sell"}
    ELSE {"buy", "sell"}

\* trades.push(enriched); if (trades.length > RING_BUFFER_SIZE) trades.shift()
AggregationEngine_pushTrade(trades, enriched) ==
    LET pushed == Append(trades, enriched)
    IN  IF Len(pushed) > RING_BUFFER_SIZE THEN Tail(pushed) ELSE pushed

AggregationEngine_newBar(ts) ==
    LET barStart == BarKey(ts, BAR_INTERVAL_MS)
    IN  [openTime |-> barStart, closeTime |-> barStart + BAR_INTERVAL_MS,
         open |-> 0, high |-> 0, low |-> {},    \* low: {} is Infinity
         close |-> 0, volume |-> 0, buyVolume |-> 0, sellVolume |-> 0,
         delta |-> 0, poc |-> 0,
         levels |-> <<>>,       \* price key -> [buyVol, sellVol, delta, trades]
         levelKeys |-> <<>>,    \* the keys of `levels` in insertion order
         imbalances |-> <<>>]

AggregationEngine_ensureBar(e, ts) ==
    IF e.currentBar = {} \/ Val(e.currentBar).openTime # BarKey(ts, BAR_INTERVAL_MS)
    THEN [e EXCEPT
            !.completedBars =
                IF e.currentBar # {}
                THEN LET pushed == Append(@, Val(e.currentBar))
                     IN  IF Len(pushed) > engineMaxBars THEN Tail(pushed)
                         ELSE pushed
                ELSE @,
            !.currentBar = {AggregationEngine_newBar(ts)}]
    ELSE e

\* bar.levels.forEach: the first level, in insertion order, whose total
\* exceeds every total before it
AggregationEngine_pocFrom_firstLevel(bar, i, maxVol, poc) ==
    IF bar.levelKeys = <<>> THEN poc ELSE bar.levelKeys[1]

RECURSIVE AggregationEngine_pocFrom(_, _, _, _)
AggregationEngine_pocFrom(bar, i, maxVol, poc) ==
    IF i > Len(bar.levelKeys) THEN poc
    ELSE LET p == bar.levelKeys[i]
             total == bar.levels[p].buyVol + bar.levels[p].sellVol
         IN  IF total > maxVol
             THEN AggregationEngine_pocFrom(bar, i + 1, total, p)
             ELSE AggregationEngine_pocFrom(bar, i + 1, maxVol, poc)

RECURSIVE AggregationEngine_imbalancesFrom(_, _, _)
AggregationEngine_imbalancesFrom(levels, prices, i) ==
    IF i > Len(prices) - 1 THEN <<>>
    ELSE LET curr == levels[prices[i]]
             next == levels[prices[i + 1]]
             ask == IF next.sellVol > 0
                       /\ RatioAtLeast(curr.buyVol, next.sellVol, IMBALANCE_RATIO)
                    THEN <<[price |-> prices[i], type |-> "ask_imbalance"]>>
                    ELSE <<>>
             bid == IF curr.sellVol > 0
                       /\ RatioAtLeast(next.buyVol, curr.sellVol, IMBALANCE_RATIO)
                    THEN <<[price |-> prices[i + 1], type |-> "bid_imbalance"]>>
                    ELSE <<>>
         IN  ask \o bid \o AggregationEngine_imbalancesFrom(levels, prices, i + 1)

AggregationEngine_computeImbalances(bar) ==
    [bar EXCEPT !.imbalances =
        AggregationEngine_imbalancesFrom(
            bar.levels, SortAscending(DOMAIN bar.levels), 1)]

AggregationEngine_updateBar(e, tick) ==
    LET e1 == AggregationEngine_ensureBar(e, tick.ts)
        bar == Val(e1.currentBar)
        isBuy == tick.side = "buy"
        known == tick.price \in DOMAIN bar.levels
        level0 == IF known THEN bar.levels[tick.price]
                  ELSE [buyVol |-> 0, sellVol |-> 0, delta |-> 0, trades |-> 0]
        level == [buyVol |-> level0.buyVol + (IF isBuy THEN tick.size ELSE 0),
                  sellVol |-> level0.sellVol + (IF isBuy THEN 0 ELSE tick.size),
                  delta |-> level0.delta + tick.delta,
                  trades |-> level0.trades + 1]
        bar1 == [bar EXCEPT
                    !.open = IF bar.open = 0 THEN tick.price ELSE bar.open,
                    !.close = tick.price,
                    !.high = Max2(bar.high, tick.price),
                    !.low = IF bar.low = {} THEN {tick.price}
                            ELSE {Min2(Val(bar.low), tick.price)},
                    !.volume = @ + tick.size,
                    !.delta = @ + tick.delta,
                    !.buyVolume = @ + (IF isBuy THEN tick.size ELSE 0),
                    !.sellVolume = @ + (IF isBuy THEN 0 ELSE tick.size),
                    !.levels = IF known THEN [@ EXCEPT ![tick.price] = level]
                               ELSE @ @@ (tick.price :> level),
                    !.levelKeys = IF known THEN @ ELSE Append(@, tick.price)]
        bar2 == [bar1 EXCEPT !.poc = AggregationEngine_pocFrom(bar1, 1, 0, bar1.poc)]
    IN  [e1 EXCEPT !.currentBar = {AggregationEngine_computeImbalances(bar2)}]

\* onTrade(tick) when the side resolves to `side`
AggregationEngine_onTrade(e, tick, side) ==
    LET enriched == [ts |-> tick.ts, price |-> tick.price, size |-> tick.size,
                     side |-> side,
                     delta |-> IF side = "buy" THEN tick.size ELSE 0 - tick.size]
        e1 == [e EXCEPT !.trades = AggregationEngine_pushTrade(@, enriched)]
        e2 == AggregationEngine_updateBar(e1, enriched)
    IN  [e2 EXCEPT !.cvd = @ + enriched.delta,
                   !.sessionCvd = @ + enriched.delta]

\* const side = tick.side || this._inferSide(tick.price)
AggregationEngine_resolveSide(e, tick) ==
    IF tick.side # {} THEN tick.side
    ELSE AggregationEngine_inferSide(e, tick.price)

AggregationEngine_onQuote(e, quote) ==
    [e EXCEPT !.lastBid = quote.bid, !.lastAsk = quote.ask]

AggregationEngine_resetSession(e) ==
    [e EXCEPT !.cvd = 0, !.sessionCvd = 0, !.trades = <<>>,
              !.currentBar = {}, !.completedBars = <<>>]

\* Array.prototype.sort over [price, size] pairs with (a, b) => b[0] - a[0]
\* (descending) or a[0] - b[0] (ascending); the sort is stable
RECURSIVE SortLevels(_, _)
SortLevels(levels, descending) ==
    IF levels = <<>> THEN <<>>
    ELSE LET n == Len(levels)
             l == levels[n]
             rest == SortLevels(SubSeq(levels, 1, n - 1), descending)
             \* l goes after every level that does not sort after it
             stays == {i \in DOMAIN rest :
                         IF descending THEN rest[i][1] >= l[1]
                         ELSE rest[i][1] <= l[1]}
             k == Cardinality(stays)
         IN  SubSeq(rest, 1, k) \o <<l>> \o SubSeq(rest, k + 1, Len(rest))

\* levels.slice(0, 10).reduce((s, l) => s + l[1], 0)
RECURSIVE AggregationEngine_liquidity(_, _)
AggregationEngine_liquidity(levels, i) ==
    IF i > Min2(Len(levels), domBalanceLevels) THEN 0
    ELSE levels[i][2] + AggregationEngine_liquidity(levels, i + 1)

\* +(bidLiq / askLiq).toFixed(2), in hundredths: the nearest hundredth, a
\* tie going up
AggregationEngine_ratio(bidLiq, askLiq) ==
    (200 * bidLiq + askLiq) \div (2 * askLiq)

\* _analyzeDOMBalance(): {} is null; ratio is in hundredths
AggregationEngine_analyzeDOMBalance(e) ==
    IF Len(e.dom.bids) = 0 \/ Len(e.dom.asks) = 0 THEN {}
    ELSE LET bidLiq == AggregationEngine_liquidity(e.dom.bids, 1)
             askLiq == AggregationEngine_liquidity(e.dom.asks, 1)
             ratio == IF askLiq > 0 THEN AggregationEngine_ratio(bidLiq, askLiq)
                      ELSE 0
         IN  {[bidLiq |-> bidLiq, askLiq |-> askLiq, ratio |-> ratio,
               bias |-> IF ratio > biasBidHeavy THEN "bid_heavy"
                        ELSE IF ratio < biasAskHeavy THEN "ask_heavy"
                        ELSE "balanced"]}

\* _checkDOMImbalance(): the 'alert' events it emits
AggregationEngine_checkDOMImbalance(e) ==
    LET metrics == AggregationEngine_analyzeDOMBalance(e)
    IN  IF metrics = {} THEN <<>>
        ELSE IF Val(metrics).ratio >= domAlertHigh
                \/ Val(metrics).ratio <= domAlertLow
        THEN <<[event |-> "alert", type |-> "dom_imbalance",
                data |-> Val(metrics)]>>
        ELSE <<>>

AggregationEngine_onDepth(e, depth) ==
    [e EXCEPT !.dom = [bids |-> SortLevels(depth.bids, TRUE),
                       asks |-> SortLevels(depth.asks, FALSE),
                       lastUpdate |-> depth.ts]]

\* --- the engine's own alerts.  this.alerts is the sequence of the Map's
\* values in insertion order; an alert is [id, type, enabled, threshold],
\* the threshold possibly undefined.
EngineAlertTypes ==
    {"large_print", "delta_threshold", "tape_speed", "dom_imbalance"}

\* this.alerts.set(alert.id, alert): a known id keeps its place
AggregationEngine_setAlert(alerts, alert) ==
    IF \E i \in DOMAIN alerts : alerts[i].id = alert.id
    THEN [i \in DOMAIN alerts |->
            IF alerts[i].id = alert.id THEN alert ELSE alerts[i]]
    ELSE Append(alerts, alert)

\* this.alerts.delete(id)
AggregationEngine_removeAlert(alerts, id) ==
    SelectSeq(alerts, LAMBDA a : a.id # id)

\* alert.threshold || fallback
AggregationEngine_threshold(alert, fallback) ==
    IF alert.threshold = {} \/ alert.threshold = {0} THEN fallback
    ELSE Val(alert.threshold)

\* the condition of the alert's case in _checkAlerts; e and tape are the
\* engine and metrics.tapeSpeeds as onTrade left them
AggregationEngine_alertHit(e, tape, alert, tick, now) ==
    IF alert.type = "large_print"
    THEN tick.size >= AggregationEngine_threshold(alert, LARGE_TRADE_THRESHOLD)
    ELSE IF alert.type = "delta_threshold"
    THEN (IF e.cvd < 0 THEN 0 - e.cvd ELSE e.cvd)
            >= AggregationEngine_threshold(alert, deltaAlertDefault)
    ELSE IF alert.type = "tape_speed"
    THEN Len(SelectSeq(tape, LAMBDA t : t > now - tapeWindowMs))
            >= AggregationEngine_threshold(alert, tapeSpeedDefault)
    ELSE FALSE

\* _checkAlerts(tick): the 'alert' events it emits, from alert i on
RECURSIVE AggregationEngine_checkAlerts(_, _, _, _, _, _)
AggregationEngine_checkAlerts(e, tape, alerts, i, tick, now) ==
    IF i > Len(alerts) THEN <<>>
    ELSE (IF alerts[i].enabled
             /\ AggregationEngine_alertHit(e, tape, alerts[i], tick, now)
          THEN <<[event |-> "alert", alertId |-> alerts[i].id,
                  type |-> alerts[i].type, ts |-> now]>>
          ELSE <<>>)
         \o AggregationEngine_checkAlerts(e, tape, alerts, i + 1, tick, now)

\* the latest two emission times of every type after `events` were emitted
\* at `now`
EmittedAfter(emitted, events, now) ==
    [type \in EngineAlertTypes |->
        LET k == Cardinality({i \in DOMAIN events :
                                events[i].event = "alert"
                                /\ events[i].type = type})
        IN  IF k = 0 THEN emitted[type]
            ELSE IF k = 1 THEN LastOf(Append(emitted[type], now), 2)
            ELSE <<now, now>>]

InitEngine ==
    /\ eng = AggregationEngine_new
    /\ engN = 0
    /\ engTwinSide = {}
    /\ engDepthEvents = <<>>
    /\ engAlerts = <<>>
    /\ engTape = <<>>
    /\ engEmitted = [type \in EngineAlertTypes |-> <<>>]

\* one engine ingests the trade; engTwinSide is what a second engine in the
\* same state assigns to the same trade
OnTrade(tick) ==
    /\ engN < MaxTrades
    /\ \E side \in AggregationEngine_resolveSide(eng, tick),
          twin \in AggregationEngine_resolveSide(eng, tick) :
          /\ eng' = AggregationEngine_onTrade(eng, tick, side)
          /\ engTwinSide' = {twin}
    /\ engN' = engN + 1
    /\ UNCHANGED engDepthEvents

OnQuote(quote) ==
    /\ eng' = AggregationEngine_onQuote(eng, quote)
    /\ UNCHANGED <<engN, engTwinSide, engDepthEvents>>

ResetSession ==
    /\ eng' = AggregationEngine_resetSession(eng)
    /\ engTwinSide' = {}
    /\ UNCHANGED <<engN, engDepthEvents>>

\* onDepth(depth): the book is replaced, the imbalance check runs on the
\* new book, then 'dom_update' is emitted
OnDepth(depth) ==
    /\ eng' = AggregationEngine_onDepth(eng, depth)
    /\ engDepthEvents' =
          AggregationEngine_checkDOMImbalance(eng')
          \o <<[event |-> "dom_update", type |-> "dom_update",
                data |-> eng'.dom]>>
    /\ UNCHANGED <<engN, engTwinSide>>

SetAlert(alert) ==
    /\ engAlerts' = AggregationEngine_setAlert(engAlerts, alert)
    /\ UNCHANGED <<engVars, engTape, engEmitted, aeNow>>

RemoveAlert(id) ==
    /\ engAlerts' = AggregationEngine_removeAlert(engAlerts, id)
    /\ UNCHANGED <<engVars, engTape, engEmitted, aeNow>>

\* onTrade(tick) at time aeNow, with metrics.tapeSpeeds.push(Date.now()) and
\* the alerts _checkAlerts emits
OnTradeAt(tick) ==
    /\ OnTrade(tick)
    /\ engTape' = Append(engTape, aeNow)
    /\ engEmitted' =
          EmittedAfter(engEmitted,
              AggregationEngine_checkAlerts(
                  eng', engTape', engAlerts, 1,
                  [ts |-> tick.ts, price |-> tick.price, size |-> tick.size],
                  aeNow),
              aeNow)
    /\ UNCHANGED <<engAlerts, aeNow>>

\* onDepth(depth) at time aeNow, with the alert _checkDOMImbalance emits
OnDepthAt(depth) ==
    /\ OnDepth(depth)
    /\ engEmitted' = EmittedAfter(engEmitted, engDepthEvents', aeNow)
    /\ UNCHANGED <<engAlerts, engTape, aeNow>>

(***************************************************************************)
(* DomBuilder.  A Map is the sequence of its [price, size] entries in      *)
(* insertion order, with no price twice.                                   *)
(***************************************************************************)
Map_has(m, price) == \E i \in DOMAIN m : m[i].price = price

\* Map.get: {} is undefined
Map_get(m, price) == {m[i].size : i \in {j \in DOMAIN m : m[j].price = price}}

\* Map.set: an existing key keeps its place
Map_set(m, price, size) ==
    IF Map_has(m, price)
    THEN [i \in DOMAIN m |->
            IF m[i].price = price THEN [price |-> price, size |-> size]
            ELSE m[i]]
    ELSE Append(m, [price |-> price, size |-> size])

Map_keys(m) == {m[i].price : i \in DOMAIN m}

DomBuilder_new(levels) ==
    [maxLevels |-> levels, bids |-> <<>>, asks |-> <<>>,
     prevBids |-> <<>>, prevAsks |-> <<>>]

RECURSIVE DomBuilder_setLevels_keepsZero(_, _)
DomBuilder_setLevels_keepsZero(m, levels) ==
    IF levels = <<>> THEN m
    ELSE DomBuilder_setLevels_keepsZero(
            Map_set(m, Head(levels).price, Head(levels).size), Tail(levels))

\* for (const [price, size] of levels) if (size > 0) map.set(price, size)
RECURSIVE DomBuilder_setLevels(_, _)
DomBuilder_setLevels(m, levels) ==
    IF levels = <<>> THEN m
    ELSE DomBuilder_setLevels(
            IF Head(levels).size > 0
            THEN Map_set(m, Head(levels).price, Head(levels).size) ELSE m,
            Tail(levels))

DomBuilder_update(d, bids, asks) ==
    [d EXCEPT !.prevBids = d.bids, !.prevAsks = d.asks,
              !.bids = DomBuilder_setLevels(<<>>, bids),
              !.asks = DomBuilder_setLevels(<<>>, asks)]

\* [...cur.entries()].sort(by price, descending for 'bid').slice(0, maxLevels)
DomBuilder_sortedEntries(d, cur, side) ==
    LET ascending == SortAscending(Map_keys(cur))
        prices == IF side = "bid" THEN Reverse(ascending) ELSE ascending
        top == SubSeq(prices, 1, Min2(d.maxLevels, Len(prices)))
    IN  [i \in DOMAIN top |->
            [price |-> top[i], size |-> Val(Map_get(cur, top[i]))]]

DomBuilder_change_increaseOnly(size, prevSize) ==
    IF prevSize = {} THEN "added"
    ELSE IF size > Val(prevSize) THEN "modified"
    ELSE "unchanged"

DomBuilder_change(size, prevSize) ==
    IF prevSize = {} THEN "added"
    ELSE IF size > Val(prevSize) THEN "modified"
    ELSE IF size < Val(prevSize) THEN "modified"
    ELSE "unchanged"

DomBuilder_buildLevels(d, cur, prev, side) ==
    LET entries == DomBuilder_sortedEntries(d, cur, side)
    IN  [i \in DOMAIN entries |->
            [price |-> entries[i].price, size |-> entries[i].size,
             side |-> side,
             change |-> DomBuilder_change(entries[i].size,
                                          Map_get(prev, entries[i].price)),
             prevSize |-> Map_get(prev, entries[i].price)]]

RECURSIVE SumOfSizes(_)
SumOfSizes(m) == IF m = <<>> THEN 0 ELSE Head(m).size + SumOfSizes(Tail(m))

\* size >= this._calcLargeThreshold(): 100 for an empty book, otherwise
\* three times the mean size of the book
DomBuilder_atLeastLarge(d, size) ==
    LET count == Len(d.bids) + Len(d.asks)
    IN  IF count = 0 THEN size >= emptyBookLargeThreshold
        ELSE size * count
                >= largeMultiple * (SumOfSizes(d.bids) + SumOfSizes(d.asks))

DomBuilder_pulled(d, prev, cur, side) ==
    LET gone == SelectSeq(prev, LAMBDA e :
                    DomBuilder_atLeastLarge(d, e.size) /\ ~Map_has(cur, e.price))
    IN  [i \in DOMAIN gone |->
            [price |-> gone[i].price, size |-> gone[i].size,
             side |-> side, change |-> "removed"]]

DomBuilder_snapshot(d) ==
    LET bids == DomBuilder_buildLevels(d, d.bids, d.prevBids, "bid")
        asks == DomBuilder_buildLevels(d, d.asks, d.prevAsks, "ask")
        stacked(levels) == SelectSeq(levels, LAMBDA l :
                    DomBuilder_atLeastLarge(d, l.size) /\ l.change # "removed")
    IN  [bids |-> bids,
         asks |-> asks,
         stackedBids |-> stacked(bids),
         stackedAsks |-> stacked(asks),
         pulledBids |-> DomBuilder_pulled(d, d.prevBids, d.bids, "bid"),
         pulledAsks |-> DomBuilder_pulled(d, d.prevAsks, d.asks, "ask"),
         bestBid |-> IF bids = <<>> THEN {} ELSE {bids[1].price},
         bestAsk |-> IF asks = <<>> THEN {} ELSE {asks[1].price},
         spread |-> IF bids # <<>> /\ asks # <<>>
                    THEN {asks[1].price - bids[1].price} ELSE {}]

domNoCall == [op |-> "none", val |-> <<>>]

DomIdle ==
    /\ dom = DomBuilder_new(1)
    /\ domN = 0
    /\ domInput = [bids |-> <<>>, asks |-> <<>>]
    /\ domBefore = [bids |-> <<>>, asks |-> <<>>]
    /\ domOut = domNoCall

InitDom ==
    /\ dom \in {DomBuilder_new(levels) : levels \in 1..MaxLevels}
    /\ domN = 0
    /\ domInput = [bids |-> <<>>, asks |-> <<>>]
    /\ domBefore = [bids |-> <<>>, asks |-> <<>>]
    /\ domOut = domNoCall

DomUpdate(bids, asks) ==
    /\ domN < MaxDomUpdates
    /\ dom' = DomBuilder_update(dom, bids, asks)
    /\ domN' = domN + 1
    /\ domInput' = [bids |-> bids, asks |-> asks]
    /\ domBefore' = [bids |-> dom.bids, asks |-> dom.asks]
    /\ domOut' = domNoCall

DomSnapshot ==
    /\ domOut' = [op |-> "snapshot", val |-> <<DomBuilder_snapshot(dom)>>]
    /\ UNCHANGED <<dom, domN, domInput, domBefore>>

(***************************************************************************)
(* AlertEvaluator.  recentAlerts maps every alert type to the time it last *)
(* fired, {} while the Map has no entry for it.  An alert is its type, its *)
(* severity and its ts; its random id and its message are left out.        *)
(***************************************************************************)
AlertTypes == {"large_print", "delta_threshold", "tape_speed", "dom_imbalance"}

AlertEvaluator_new ==
    [config |-> [deltaThreshold |-> deltaThreshold,
                 largePrintSize |-> largePrintSize,
                 tapeSpeedThreshold |-> tapeSpeedThreshold,
                 domImbalanceRatio |-> domImbalanceRatio],
     recentAlerts |-> [type \in AlertTypes |-> {}],
     throttleMs |-> throttleMs]

AlertEvaluator_canAlert_sharedThrottle(a, type, now) ==
    \A other \in AlertTypes :
        \/ a.recentAlerts[other] = {}
        \/ Val(a.recentAlerts[other]) = 0
        \/ now - Val(a.recentAlerts[other]) > a.throttleMs

AlertEvaluator_canAlert_never(a, type, now) == a.recentAlerts[type] = {}

\* !last || Date.now() - last > this.throttleMs
AlertEvaluator_canAlert(a, type, now) ==
    \/ a.recentAlerts[type] = {}
    \/ Val(a.recentAlerts[type]) = 0
    \/ now - Val(a.recentAlerts[type]) > a.throttleMs

AlertEvaluator_makeAlert(type, severity, now) ==
    [type |-> type, severity |-> severity, ts |-> now]

\* a check that stamps the type also when the throttle drops the alert
AlertEvaluator_check_stampsDropped(pair, condition, type, severity, now) ==
    IF condition /\ AlertEvaluator_canAlert(pair[1], type, now)
    THEN <<[pair[1] EXCEPT !.recentAlerts[type] = {now}],
           Append(pair[2], AlertEvaluator_makeAlert(type, severity, now))>>
    ELSE IF condition
    THEN <<[pair[1] EXCEPT !.recentAlerts[type] = {now}], pair[2]>>
    ELSE pair

\* one `if (condition && this._canAlert(type)) alerts.push(...)` of evaluate,
\* applied to the pair <<evaluator, alerts so far>>
AlertEvaluator_check(pair, condition, type, severity, now) ==
    IF condition /\ AlertEvaluator_canAlert(pair[1], type, now)
    THEN <<[pair[1] EXCEPT !.recentAlerts[type] = {now}],
           Append(pair[2], AlertEvaluator_makeAlert(type, severity, now))>>
    ELSE pair

\* metrics?.isLarge
AlertEvaluator_isLarge(a, in) == in.metrics # {} /\ Val(in.metrics).isLarge

\* cvdPoint && Math.abs(cvdPoint.cvd) >= this.config.deltaThreshold
AlertEvaluator_deltaHit(a, in) ==
    /\ in.cvdPoint # {}
    /\ LET c == Val(in.cvdPoint).cvd
       IN  (IF c < 0 THEN 0 - c ELSE c) >= a.config.deltaThreshold

\* metrics?.tapeSpeed >= this.config.tapeSpeedThreshold
AlertEvaluator_speedHit(a, in) ==
    in.metrics # {} /\ Val(in.metrics).tapeSpeed >= a.config.tapeSpeedThreshold

\* the dom branch: both best sizes > 0 and the larger ratio >= the threshold
AlertEvaluator_domHit(a, in) ==
    /\ in.dom # {}
    /\ LET d == Val(in.dom)
           bestBidSize == IF d.bids = <<>> THEN 0 ELSE d.bids[1].size
           bestAskSize == IF d.asks = <<>> THEN 0 ELSE d.asks[1].size
       IN  /\ bestBidSize > 0 /\ bestAskSize > 0
           /\ \/ RatioAtLeast(bestBidSize, bestAskSize, a.config.domImbalanceRatio)
              \/ RatioAtLeast(bestAskSize, bestBidSize, a.config.domImbalanceRatio)

\* evaluate(in) at time now: <<the evaluator afterwards, the alerts returned>>
AlertEvaluator_evaluate(a, in, now) ==
    LET p1 == AlertEvaluator_check(<<a, <<>>>>, AlertEvaluator_isLarge(a, in),
                                   "large_print", "high", now)
        p2 == AlertEvaluator_check(p1, AlertEvaluator_deltaHit(a, in),
                                   "delta_threshold", "medium", now)
        p3 == AlertEvaluator_check(p2, AlertEvaluator_speedHit(a, in),
                                   "tape_speed", "medium", now)
    IN  AlertEvaluator_check(p3, AlertEvaluator_domHit(a, in),
                             "dom_imbalance", "low", now)

AlertEvaluator_updateConfig_resetsThrottle(a, config) ==
    [a EXCEPT !.config = config @@ a.config,
              !.recentAlerts = [type \in AlertTypes |-> {}]]

\* this.config = { ...this.config, ...config }
AlertEvaluator_updateConfig(a, config) ==
    [a EXCEPT !.config = config @@ a.config]

TypesOf(alerts) == {alerts[i].type : i \in DOMAIN alerts}

aeNoCall == [op |-> "none", now |-> 0, in |-> <<>>, alerts |-> <<>>]

InitAlerts ==
    /\ ae = AlertEvaluator_new
    /\ aeNow = 1
    /\ aeN = 0
    /\ aeOut = aeNoCall
    /\ aeFired = [type \in AlertTypes |-> {}]
    /\ aeLargeLog = <<>>

Evaluate(in) ==
    /\ LET result == AlertEvaluator_evaluate(ae, in, aeNow)
       IN  /\ ae' = result[1]
           /\ aeOut' = [op |-> "evaluate", now |-> aeNow, in |-> in,
                        alerts |-> result[2]]
           /\ aeFired' = [type \in AlertTypes |->
                            IF type \in TypesOf(result[2]) THEN {aeNow}
                            ELSE aeFired[type]]
           /\ aeLargeLog' =
                IF in.metrics # {} /\ Val(in.metrics).isLarge
                THEN Append(aeLargeLog,
                        [ts |-> aeNow,
                         fired |-> "large_print" \in TypesOf(result[2])])
                ELSE aeLargeLog
    /\ aeN' = aeN + 1
    /\ UNCHANGED aeNow

UpdateConfig(config) ==
    /\ ae' = AlertEvaluator_updateConfig(ae, config)
    /\ aeOut' = [op |-> "updateConfig", now |-> aeNow, in |-> config,
                 alerts |-> <<>>]
    /\ UNCHANGED <<aeNow, aeN, aeFired, aeLargeLog>>

\* time passes between two calls
AdvanceClock ==
    /\ aeNow < MaxNow
    /\ aeNow' = aeNow + 1
    /\ UNCHANGED <<ae, aeN, aeOut, aeFired, aeLargeLog>>

(***************************************************************************)
(* The two ReplayEngine classes: the one in AggregationEngine.js, which    *)
(* the server constructs over the Database and the AggregationEngine, and  *)
(* the one in storage.js, constructed over a TickStorage and an onTick     *)
(* callback.  Positions are 0-based as in the code; a speed is an integer. *)
(*                                                                         *)
(* A JavaScript number that a division produced is the record              *)
(* [kind, num, den]: kind "num" is the fraction num/den (den > 0), kind    *)
(* "inf" is +Infinity and kind "nan" is NaN.                               *)
(*                                                                         *)
(* A pending timer is [id, delay, gap, speed]: the handle setTimeout       *)
(* returned and the delay it was given, with the timestamp gap and the     *)
(* speed the delay was computed from.  Pending timers fire in any order.   *)
(***************************************************************************)
JsNum(n, d) == [kind |-> "num", num |-> n, den |-> d]
JsInfinity == [kind |-> "inf", num |-> 0, den |-> 1]
JsNaN == [kind |-> "nan", num |-> 0, den |-> 1]

\* a / b for integers a >= 0 and b
JsDivide(a, b) ==
    IF b > 0 THEN JsNum(a, b)
    ELSE IF b < 0 THEN JsNum(0 - a, 0 - b)
    ELSE IF a = 0 THEN JsNaN
    ELSE JsInfinity

\* Math.max(0, x)
JsMaxZero(x) == IF x.kind = "num" /\ x.num < 0 THEN JsNum(0, 1) ELSE x

\* Math.min(x, cap)
JsMin(x, cap) ==
    IF x.kind = "nan" THEN x
    ELSE IF x.kind = "inf" \/ x.num > cap * x.den THEN JsNum(cap, 1)
    ELSE x

\* the ticks in the store at start: ids 1..MaxStored, timestamps 0, 1, 4,
\* 9, ... (gaps 1, 3, 5, ...)
StoredTicks ==
    [i \in 1..MaxStored |->
        [id |-> i, ts |-> (i - 1) * (i - 1), price |-> 1 + (i % 2),
         size |-> 1, side |-> IF i % 2 = 1 THEN "buy" ELSE "sell"]]

\* Date.now() at a load call: later than every stored timestamp
dbNow == MaxStored * MaxStored

InRange(store, lo, hi) ==
    SelectSeq(store, LAMBDA t : t.ts >= lo /\ t.ts <= hi)

\* Database.getTicks(symbol, fromTs, toTs); fromTs and toTs may be undefined
Database_getTicks(store, fromTs, toTs) ==
    LET from == IF fromTs = {} \/ Val(fromTs) = 0 THEN 0 ELSE Val(fromTs)
        to == IF toTs = {} \/ Val(toTs) = 0 THEN dbNow ELSE Val(toTs)
    IN  InRange(store, from, to)

\* TickStorage.getTicksInRange(symbol, startTs, endTs)
TickStorage_getTicksInRange(store, startTs, endTs) ==
    InRange(store, startTs, endTs)

\* what a method of a ReplayEngine reads and writes: the object, the
\* pending timers, the AggregationEngine and the ticks delivered
World(delivered) ==
    [r |-> replay, timers |-> rpTimers, eng |-> eng,
     delivered |-> delivered]

\* a setTimeout whose callback is never queued
SetTimeout_dropsCallback(w, delay, gap) == [w EXCEPT !.r.timer = {1}]

\* this._timer = setTimeout(callback, delay): a handle no pending timer has
SetTimeout(w, delay, gap) ==
    LET used == {t.id : t \in w.timers} \cup w.r.timer
        id == CHOOSE i \in 1..(Cardinality(used) + 1) :
                /\ i \notin used
                /\ \A j \in 1..(i - 1) : j \in used
    IN  [w EXCEPT !.timers = @ \cup {[id |-> id, delay |-> delay,
                                      gap |-> gap, speed |-> w.r.speed]},
                  !.r.timer = {id}]

\* clearTimeout(this._timer)
ClearTimeout(w) ==
    [w EXCEPT !.timers = {t \in @ : t.id \notin w.r.timer}]

\* --- AggregationEngine.js
ReplayEngine_new ==
    [running |-> FALSE, speed |-> 1, timer |-> {}, ticks |-> <<>>, idx |-> 0]

ReplayEngine_load(w, store, fromTs, toTs) ==
    [w EXCEPT !.r.ticks = Database_getTicks(store, fromTs, toTs),
              !.r.idx = 0]

\* Math.max(0, (nextTick.ts - tick.ts) / this.speed)
ReplayEngine_delay(gap, speed) == JsMaxZero(JsDivide(gap, speed))

ReplayEngine_playNext(w) ==
    IF ~w.r.running \/ w.r.idx >= Len(w.r.ticks)
    THEN [w EXCEPT !.r.running = FALSE]
    ELSE LET tick == w.r.ticks[w.r.idx + 1]
             \* a stored tick carries its side
             w1 == [w EXCEPT
                      !.eng = AggregationEngine_onTrade(@, tick, tick.side),
                      !.delivered = Append(@, tick.id),
                      !.r.idx = @ + 1]
         IN  IF w1.r.idx < Len(w1.r.ticks)
             THEN LET gap == w1.r.ticks[w1.r.idx + 1].ts - tick.ts
                  IN  SetTimeout(w1, ReplayEngine_delay(gap, w1.r.speed), gap)
             ELSE [w1 EXCEPT !.r.running = FALSE]

\* play(speed) throws when no ticks are loaded
ReplayEngine_playThrows(r) == Len(r.ticks) = 0

\* play(speed), speed possibly undefined: this.speed = speed || 1.0
ReplayEngine_play(w, speed) ==
    LET w1 == [w EXCEPT !.r.speed = IF speed = {} \/ Val(speed) = 0 THEN 1
                                    ELSE Val(speed)]
    IN  IF ReplayEngine_playThrows(w1.r) THEN w1
        ELSE ReplayEngine_playNext(
                [w1 EXCEPT !.r.running = TRUE,
                           !.eng = AggregationEngine_resetSession(@)])

\* a pause that rewinds, as stop does
ReplayEngine_pause_resetsPosition(w) ==
    [ClearTimeout([w EXCEPT !.r.running = FALSE]) EXCEPT !.r.idx = 0]

ReplayEngine_pause(w) == ClearTimeout([w EXCEPT !.r.running = FALSE])

ReplayEngine_stop(w) ==
    [ClearTimeout([w EXCEPT !.r.running = FALSE]) EXCEPT !.r.idx = 0]

ReplayEngine_getStatus(r) ==
    [running |-> r.running, position |-> r.idx, total |-> Len(r.ticks)]

\* --- storage.js; _startRealTs and _startTickTs are written by play and
\* read nowhere
StorageReplayEngine_new ==
    [timer |-> {}, ticks |-> <<>>, pos |-> 0, speed |-> 1, playing |-> FALSE]

StorageReplayEngine_load(w, store, startTs, endTs) ==
    [w EXCEPT !.r.ticks = TickStorage_getTicksInRange(store, startTs, endTs),
              !.r.pos = 0,
              !.r.playing = FALSE]

\* Math.min(Math.max(0, (nextTick.ts - tick.ts) / this._speed), 5000)
StorageReplayEngine_delay(gap, speed) ==
    JsMin(JsMaxZero(JsDivide(gap, speed)), maxDelayMs)

StorageReplayEngine_scheduleNext(w) ==
    IF ~w.r.playing \/ w.r.pos >= Len(w.r.ticks)
    THEN IF w.r.pos >= Len(w.r.ticks) THEN [w EXCEPT !.r.playing = FALSE]
         ELSE w
    ELSE LET tick == w.r.ticks[w.r.pos + 1]
             \* this.onTick(tick); this._pos++
             w1 == [w EXCEPT !.delivered = Append(@, tick.id),
                             !.r.pos = @ + 1]
         IN  IF w.r.pos + 1 >= Len(w.r.ticks)
             THEN [w1 EXCEPT !.r.playing = FALSE]
             ELSE LET gap == w.r.ticks[w.r.pos + 2].ts - tick.ts
                  IN  SetTimeout(w1, StorageReplayEngine_delay(gap, w.r.speed),
                                 gap)

\* play(speed = 1.0)
StorageReplayEngine_play(w, speed) ==
    IF Len(w.r.ticks) = 0 THEN w
    ELSE StorageReplayEngine_scheduleNext(
            [w EXCEPT !.r.speed = IF speed = {} THEN 1 ELSE Val(speed),
                      !.r.playing = TRUE])

\* a pause that only clears the timer it holds
StorageReplayEngine_pause_keepsPlaying(w) == ClearTimeout(w)

\* a pause that steps back to the tick delivered last
StorageReplayEngine_pause_rewindsOne(w) ==
    ClearTimeout([w EXCEPT !.r.playing = FALSE,
                           !.r.pos = IF @ > 0 THEN @ - 1 ELSE 0])

StorageReplayEngine_pause(w) == ClearTimeout([w EXCEPT !.r.playing = FALSE])

StorageReplayEngine_stop(w) ==
    [StorageReplayEngine_pause(w) EXCEPT !.r.pos = 0]

StorageReplayEngine_getStatus(r) ==
    [running |-> r.playing, position |-> r.pos, total |-> Len(r.ticks)]

\* --- either class
Status ==
    IF rpImpl = "engine" THEN ReplayEngine_getStatus(replay)
    ELSE StorageReplayEngine_getStatus(replay)

rpNoCall ==
    [call |-> "none", prev |-> "none", threw |-> FALSE, returned |-> {},
     before |-> [running |-> FALSE, position |-> 0, total |-> 0]]

Returned(call, threw, returned) ==
    [call |-> call, prev |-> rpOut.call, threw |-> threw,
     returned |-> returned, before |-> Status]

\* the object is constructed; no call was made
ReplayNew(impl) ==
    /\ db = StoredTicks
    /\ rpImpl = impl
    /\ replay = IF impl = "engine" THEN ReplayEngine_new
            ELSE StorageReplayEngine_new
    /\ rpTimers = {}
    /\ rpDelivered = <<>>
    /\ rpOut = rpNoCall
    /\ rpCalls = 0
    /\ rpLog = <<>>

\* --- FeedManager and the SimulatedFeed it owns.  A running feed has its
\* trade timer pending; stop() clears it.
FeedManager_new == [activeFeed |-> {}, feedType |-> {}]

FeedManager_stop(f) ==
    IF f.activeFeed # {} THEN [activeFeed |-> {}, feedType |-> {}] ELSE f

\* stop(); activeFeed = new SimulatedFeed(symbol, config); _attachFeed;
\* activeFeed.start()
FeedManager_startSimulated(f) ==
    [FeedManager_stop(f) EXCEPT
        !.activeFeed = {[symbol |-> "ES", running |-> TRUE]},
        !.feedType = {"simulated"}]

FeedManager_getStatus(f) ==
    [type |-> f.feedType,
     running |-> IF f.activeFeed # {} THEN Val(f.activeFeed).running
                 ELSE FALSE]

noRequest == [route |-> "none", req |-> <<>>, status |-> 0, body |-> {}]

\* no feed was started, no request was made
ServerIdle ==
    /\ fm = FeedManager_new
    /\ fmN = 0
    /\ res = noRequest

ReplayIdle == ReplayNew("engine") /\ ServerIdle

\* the state after a method ran
Apply(world) ==
    \E w \in {world} :
        /\ replay' = w.r
        /\ rpTimers' = w.timers
        /\ eng' = w.eng
        /\ rpDelivered' = w.delivered

\* load(symbol, fromTs, toTs): the caller of the storage.js class passes
\* both bounds
Load(fromTs, toTs) ==
    /\ rpCalls < MaxCalls
    /\ rpImpl = "storage" => fromTs # {} /\ toTs # {}
    /\ LET w == IF rpImpl = "engine"
                THEN ReplayEngine_load(World(<<>>), db, fromTs, toTs)
                ELSE StorageReplayEngine_load(World(<<>>), db,
                                              Val(fromTs), Val(toTs))
       IN  /\ Apply(w)
           \* the count returned
           /\ rpOut' = Returned("load", FALSE, {Len(w.r.ticks)})
    /\ rpCalls' = rpCalls + 1
    /\ UNCHANGED <<db, rpImpl>>

Play(speed) ==
    /\ rpCalls < MaxCalls
    /\ IF rpImpl = "engine"
       THEN /\ Apply(ReplayEngine_play(World(<<>>), speed))
            /\ rpOut' = IF ReplayEngine_playThrows(replay)
                        THEN Returned("play", TRUE, {})
                        ELSE Returned("play", FALSE, {"playing"})
       ELSE /\ Apply(StorageReplayEngine_play(World(<<>>), speed))
            \* play returns nothing
            /\ rpOut' = Returned("play", FALSE, {})
    /\ rpCalls' = rpCalls + 1
    /\ UNCHANGED <<db, rpImpl>>

Pause ==
    /\ rpCalls < MaxCalls
    /\ IF rpImpl = "engine"
       THEN /\ Apply(ReplayEngine_pause(World(<<>>)))
            /\ rpOut' = Returned("pause", FALSE, {"paused"})
       ELSE /\ Apply(StorageReplayEngine_pause(World(<<>>)))
            /\ rpOut' = Returned("pause", FALSE, {})
    /\ rpCalls' = rpCalls + 1
    /\ UNCHANGED <<db, rpImpl>>

Stop ==
    /\ rpCalls < MaxCalls
    /\ IF rpImpl = "engine"
       THEN /\ Apply(ReplayEngine_stop(World(<<>>)))
            /\ rpOut' = Returned("stop", FALSE, {"stopped"})
       ELSE /\ Apply(StorageReplayEngine_stop(World(<<>>)))
            /\ rpOut' = Returned("stop", FALSE, {})
    /\ rpCalls' = rpCalls + 1
    /\ UNCHANGED <<db, rpImpl>>

\* a pending timer fires: () => this._playNext() / this._scheduleNext()
TimerFires(t) ==
    /\ t \in rpTimers
    /\ LET w == [World(rpDelivered) EXCEPT !.timers = @ \ {t}]
       IN  IF rpImpl = "engine" THEN Apply(ReplayEngine_playNext(w))
           ELSE Apply(StorageReplayEngine_scheduleNext(w))
    /\ UNCHANGED <<db, rpImpl, rpOut, rpCalls>>

\* --- the same calls, with every delivery logged: one load, then play and
\* pause calls, play only while the replay is not running
ResumeLoad(fromTs, toTs) ==
    /\ rpOut.call = "none"
    /\ Load(fromTs, toTs)
    /\ rpLog' = <<>>

ResumePlay(speed) ==
    /\ rpOut.call # "none"
    /\ ~Status.running
    /\ Play(speed)
    /\ rpLog' = rpLog \o rpDelivered'

ResumePause ==
    /\ rpOut.call # "none"
    /\ Pause
    /\ rpLog' = rpLog

ResumeTimerFires(t) ==
    /\ TimerFires(t)
    /\ rpLog' = rpLog \o SubSeq(rpDelivered', Len(rpDelivered) + 1,
                                Len(rpDelivered'))

\* --- the REST routes (createRestRoutes) over the FeedManager and the
\* ReplayEngine of AggregationEngine.js
\* router.post('/replay/load')
PostReplayLoad(fromTs, toTs) ==
    /\ Load(fromTs, toTs)
    /\ res' = [route |-> "/replay/load", req |-> <<fromTs, toTs>>,
               status |-> 200, body |-> rpOut'.returned]

\* router.post('/replay/play'): an error thrown by play is answered 400
PostReplayPlay(speed) ==
    /\ Play(speed)
    /\ res' = [route |-> "/replay/play", req |-> <<speed>>,
               status |-> IF rpOut'.threw THEN 400 ELSE 200,
               body |-> rpOut'.returned]

PostReplayPause ==
    /\ Pause
    /\ res' = [route |-> "/replay/pause", req |-> <<>>, status |-> 200,
               body |-> rpOut'.returned]

PostReplayStop ==
    /\ Stop
    /\ res' = [route |-> "/replay/stop", req |-> <<>>, status |-> 200,
               body |-> rpOut'.returned]

\* router.post('/feed/start'), type possibly undefined
PostFeedStart(type) ==
    /\ rpCalls < MaxCalls
    /\ IF type = {} \/ type = {"simulated"}
       THEN /\ fm' = FeedManager_startSimulated(fm)
            /\ res' = [route |-> "/feed/start", req |-> <<type>>,
                       status |-> 200, body |-> {"started"}]
       ELSE /\ fm' = fm
            /\ res' = [route |-> "/feed/start", req |-> <<type>>,
                       status |-> 400, body |-> {}]
    /\ rpCalls' = rpCalls + 1
    /\ UNCHANGED <<db, eng, fmN>>

PostFeedStop ==
    /\ rpCalls < MaxCalls
    /\ fm' = FeedManager_stop(fm)
    /\ res' = [route |-> "/feed/stop", req |-> <<>>, status |-> 200,
               body |-> {"stopped"}]
    /\ rpCalls' = rpCalls + 1
    /\ UNCHANGED <<db, eng, fmN>>

\* the running feed emits 'trade': db.insertTick(tick); engine.onTrade(tick).
\* The tick carries a fresh id, the feed's side and ts = Date.now().
FeedTrade(price, side) ==
    /\ FeedManager_getStatus(fm).running
    /\ fmN < MaxFeedTrades
    /\ LET tick == [id |-> Len(db) + 1, ts |-> dbNow, price |-> price,
                    size |-> 1, side |-> side]
       IN  /\ db' = Append(db, tick)
           /\ eng' = AggregationEngine_onTrade(eng, tick, side)
    /\ fmN' = fmN + 1
    /\ UNCHANGED <<fm, res, rpCalls>>

(***************************************************************************)
(* Specifications                                                          *)
(***************************************************************************)
RingIdle ==
    /\ rb = RingBuffer_new(1)
    /\ rbPushed = <<>>
    /\ rbCursor = {}
    /\ rbSince = <<>>
    /\ rbCleared = FALSE
    /\ rbN = 0
    /\ rbOut = rbNoCall

\* --- inferSide called once with any arguments
InitInferSide ==
    /\ InitInferSideArgs /\ RingIdle /\ InitFootprint /\ InitCvd /\ InitEngine
    /\ DomIdle /\ InitAlerts /\ ReplayIdle

NextInferSide == CallInferSide /\ UNCHANGED exceptIs

SpecInferSide == InitInferSide /\ [][NextInferSide]_vars

\* --- one RingBuffer under any sequence of its methods
InitRingBuffer ==
    /\ InitRing /\ is = isNew /\ InitFootprint /\ InitCvd /\ InitEngine
    /\ DomIdle /\ InitAlerts /\ ReplayIdle

NextRing ==
    \/ Push /\ UNCHANGED exceptRb
    \/ \E n \in 0..MaxN, reverse \in BOOLEAN :
          Last(n, reverse) /\ UNCHANGED exceptRb
    \/ GetHead /\ UNCHANGED exceptRb
    \/ DrainSince /\ UNCHANGED exceptRb
    \/ Clear /\ UNCHANGED exceptRb

SpecRing == InitRingBuffer /\ [][NextRing]_vars

\* --- a FootprintAggregator and a CvdCalculator fed the same ticks: any
\* side, odd and even sizes, two buckets, a price on the tick grid and one
\* between two ticks
Sizes == {1, 2}

FpTicks ==
    [ts : {barDurationMs - 1, 2 * barDurationMs - 1},
     price : {tickSize, tickSize + 1}, size : Sizes, side : Side]

InitAggregators ==
    /\ is = isNew /\ RingIdle /\ InitFootprint /\ InitCvd /\ InitEngine
    /\ DomIdle /\ InitAlerts /\ ReplayIdle

NextFootprint ==
    \/ \E tick \in FpTicks :
          /\ fpN < MaxTicks
          /\ FpIngest(tick)
          /\ CvdIngest(tick)
          /\ UNCHANGED exceptFpCvd
    \/ FpGetCurrentBar /\ UNCHANGED exceptFp

SpecFootprint == InitAggregators /\ [][NextFootprint]_vars

\* --- a FootprintAggregator over many bars: timestamps on, before and
\* after the bucket boundaries of three buckets
BarTicks ==
    [ts : {0, barDurationMs - 1, barDurationMs,
           2 * barDurationMs - 1, 2 * barDurationMs},
     price : {1, tickSize + 1}, size : {1}, side : {"buy"}]

NextBars ==
    \/ \E tick \in BarTicks :
          /\ fpN < MaxBarTicks
          /\ FpIngest(tick)
          /\ UNCHANGED exceptFp
    \/ \E n \in 0..(maxBars + 1) :
          FpGetCompletedBars(n) /\ UNCHANGED exceptFp
    \/ \E ms \in {barDurationMs, barDurationMs + 1} :
          FpSetBarDuration(ms) /\ UNCHANGED exceptFp

SpecBars == InitAggregators /\ [][NextBars]_vars

\* --- a FootprintAggregator over any prices in 1..MaxPrice, two buckets
OhlcTicks ==
    [ts : {barDurationMs - 1, 2 * barDurationMs - 1},
     price : 1..MaxPrice, size : {1}, side : {"buy"}]

NextOhlc ==
    \E tick \in OhlcTicks :
        /\ fpN < MaxOhlcTicks
        /\ FpIngest(tick)
        /\ UNCHANGED exceptFp

SpecOhlc == InitAggregators /\ [][NextOhlc]_vars

\* --- a CvdCalculator under any sequence of its methods
CvdTicks ==
    [ts : {cvdBarDurationMs - 1, cvdBarDurationMs, 2 * cvdBarDurationMs - 1},
     price : {1}, size : Sizes, side : Side]

NextCvd ==
    \/ \E tick \in CvdTicks :
          /\ cvdN < MaxCvdTicks
          /\ CvdIngest(tick)
          /\ UNCHANGED exceptCvd
    \/ CvdResetSession /\ UNCHANGED exceptCvd
    \/ \E n \in 0..(maxHistory + 1) :
          CvdGetHistory(n) /\ UNCHANGED exceptCvd

SpecCvd == InitAggregators /\ [][NextCvd]_vars

\* --- an AggregationEngine fed trades with and without a side, and quotes
EngineTrades ==
    [ts : {BAR_INTERVAL_MS - 1, 2 * BAR_INTERVAL_MS - 1},
     price : {1, 2}, size : {1}, side : {{}, {"buy"}, {"sell"}}]

EngineQuotes == [bid : 0..2, ask : 0..2]

NextEngine ==
    \/ \E tick \in EngineTrades : OnTrade(tick) /\ UNCHANGED exceptEng
    \/ \E quote \in EngineQuotes : OnQuote(quote) /\ UNCHANGED exceptEng
    \/ ResetSession /\ UNCHANGED exceptEng

SpecEngine == InitAggregators /\ [][NextEngine]_vars

\* --- an AggregationEngine under trades with a given side, of size 1 and
\* of IMBALANCE_RATIO times that, on two adjacent prices, in two buckets
ImbalanceTrades ==
    [ts : {BAR_INTERVAL_MS - 1, 2 * BAR_INTERVAL_MS - 1},
     price : {1, 2}, size : {1, IMBALANCE_RATIO}, side : {{"buy"}, {"sell"}}]

NextImbalance ==
    \E tick \in ImbalanceTrades : OnTrade(tick) /\ UNCHANGED exceptEng

SpecImbalance == InitAggregators /\ [][NextImbalance]_vars

\* --- a DomBuilder under update and snapshot calls.  An update's arrays
\* hold up to two levels; sizes 0 (a removal), 1 and 3 (three times 1, a
\* large level)
BidLevels == [price : {1, 2}, size : {0, 1, 3}]

BidArrays ==
    {<<>>} \cup {<<a>> : a \in BidLevels}
           \cup {pair \in BidLevels \X BidLevels :
                    pair[1].price # pair[2].price}

AskArrays ==
    {<<>>,
     <<[price |-> 3, size |-> 1]>>,
     <<[price |-> 4, size |-> 1], [price |-> 3, size |-> 1]>>,
     <<[price |-> 3, size |-> 0], [price |-> 4, size |-> 3]>>}

InitDomBuilder ==
    /\ is = isNew /\ RingIdle /\ InitFootprint /\ InitCvd /\ InitEngine
    /\ InitDom /\ InitAlerts /\ ReplayIdle

NextDom ==
    \/ \E bids \in BidArrays, asks \in AskArrays :
          DomUpdate(bids, asks) /\ UNCHANGED exceptDom
    \/ DomSnapshot /\ UNCHANGED exceptDom

SpecDom == InitDomBuilder /\ [][NextDom]_vars

\* --- an AlertEvaluator fed large and small prints, with updateConfig
\* calls, as time passes
PrintInputs ==
    [tick : [size : {1, largePrintSize}],
     metrics : Opt([isLarge : BOOLEAN, tapeSpeed : {0}]),
     cvdPoint : {{}},
     dom : {{}}]

ConfigUpdates ==
    {[largePrintSize |-> 1],
     [deltaThreshold |-> deltaThreshold + 1, throttleMs |-> 0]}

NextThrottle ==
    \/ \E in \in PrintInputs :
          /\ aeN < MaxEvals
          /\ Evaluate(in)
          /\ UNCHANGED exceptAe
    \/ \E config \in ConfigUpdates : UpdateConfig(config) /\ UNCHANGED exceptAe
    \/ AdvanceClock /\ UNCHANGED exceptAe

SpecThrottle == InitAggregators /\ [][NextThrottle]_vars

\* --- an AlertEvaluator fed every combination of the four conditions
EvalMetrics ==
    {[isLarge |-> TRUE, tapeSpeed |-> 0],
     [isLarge |-> FALSE, tapeSpeed |-> tapeSpeedThreshold],
     [isLarge |-> TRUE, tapeSpeed |-> tapeSpeedThreshold]}

EvalCvdPoints == {[cvd |-> 0 - deltaThreshold]}

EvalDoms ==
    {[bids |-> <<[size |-> 1]>>, asks |-> <<[size |-> domImbalanceRatio]>>]}

EvalInputs ==
    [tick : [size : {1}],
     metrics : Opt(EvalMetrics),
     cvdPoint : Opt(EvalCvdPoints),
     dom : Opt(EvalDoms)]

NextAlerts ==
    \/ \E in \in EvalInputs :
          /\ aeN < MaxAlertEvals
          /\ Evaluate(in)
          /\ UNCHANGED exceptAe
    \/ AdvanceClock /\ UNCHANGED exceptAe

SpecAlerts == InitAggregators /\ [][NextAlerts]_vars

\* --- depth events reaching the engine, and books reaching an
\* AlertEvaluator: empty sides, sides whose best level or whose every
\* level has size 0, unsorted arrays, balanced and one-sided books
DepthBidArrays ==
    {<<>>, <<<<2, 0>>>>, <<<<2, 1>>>>, <<<<1, 4>>, <<2, 1>>>>,
     <<<<2, 0>>, <<1, 3>>>>, <<<<1, 0>>, <<2, 3>>>>}

DepthAskArrays ==
    {<<>>, <<<<3, 0>>>>, <<<<3, 1>>>>, <<<<4, 4>>, <<3, 1>>>>,
     <<<<3, 0>>, <<4, 3>>>>, <<<<4, 0>>, <<3, 3>>>>}

DepthEvalDoms ==
    [bids : {<<>>, <<[size |-> 0]>>, <<[size |-> 1]>>},
     asks : {<<>>, <<[size |-> 0]>>, <<[size |-> domImbalanceRatio]>>}]

DepthEvalInputs ==
    [tick : [size : {1}], metrics : {{}}, cvdPoint : {{}},
     dom : Opt(DepthEvalDoms)]

NextDepth ==
    \/ \E bids \in DepthBidArrays, asks \in DepthAskArrays :
          OnDepth([bids |-> bids, asks |-> asks, ts |-> 1])
          /\ UNCHANGED exceptEng
    \/ \E in \in DepthEvalInputs :
          /\ aeN < MaxAlertEvals
          /\ Evaluate(in)
          /\ UNCHANGED exceptAe

SpecDepth == InitAggregators /\ [][NextDepth]_vars

\* --- an AggregationEngine with alerts set and removed, under trades and
\* depth updates, while time passes.  The trades: size 1 and a large size;
\* the books: a balanced one and a bid-heavy one.
EngineAlertConfigs ==
    {[id |-> 1, type |-> "large_print", enabled |-> TRUE, threshold |-> {}],
     [id |-> 1, type |-> "delta_threshold", enabled |-> TRUE,
      threshold |-> {1}],
     [id |-> 2, type |-> "tape_speed", enabled |-> FALSE, threshold |-> {}],
     [id |-> 2, type |-> "tape_speed", enabled |-> TRUE, threshold |-> {}]}

EngineAlertTrades ==
    [ts : {BAR_INTERVAL_MS - 1}, price : {1},
     size : {1, LARGE_TRADE_THRESHOLD}, side : {{"buy"}}]

EngineAlertDepths ==
    {[bids |-> <<<<2, 1>>>>, asks |-> <<<<3, 1>>>>, ts |-> 1],
     [bids |-> <<<<2, 3>>>>, asks |-> <<<<3, 1>>>>, ts |-> 1]}

NextEngineAlerts ==
    \/ \E alert \in EngineAlertConfigs :
          SetAlert(alert) /\ UNCHANGED exceptEngineAlerts
    \/ \E id \in {1, 2} : RemoveAlert(id) /\ UNCHANGED exceptEngineAlerts
    \/ \E tick \in EngineAlertTrades :
          /\ engN < MaxAlertTrades
          /\ OnTradeAt(tick)
          /\ UNCHANGED exceptEngineAlerts
    \/ \E depth \in EngineAlertDepths :
          OnDepthAt(depth) /\ UNCHANGED exceptEngineAlerts
    \/ /\ aeNow < MaxAlertNow
       /\ AdvanceClock
       /\ UNCHANGED <<engVars, eaVars, exceptEngineAlerts>>

SpecEngineAlerts == InitAggregators /\ [][NextEngineAlerts]_vars

\* --- a ReplayEngine of either class under load, play, pause and stop
\* calls, with its timers firing in between.  The ranges: no bound or the
\* whole store, a range matching no tick, an inverted range, a missing
\* bound.  The speeds: none, 0, 2 and a negative one.
LoadRanges ==
    {<<{}, {}>>, <<{0}, {dbNow}>>, <<{2}, {3}>>, <<{1}, {0}>>, <<{1}, {}>>}

PlaySpeeds == {{}, {0}, {2}, {0 - 1}}

InitReplay ==
    /\ is = isNew /\ RingIdle /\ InitFootprint /\ InitCvd /\ InitEngine
    /\ DomIdle /\ InitAlerts
    /\ \E impl \in {"engine", "storage"} : ReplayNew(impl)
    /\ ServerIdle

FireTimer == \E t \in rpTimers : TimerFires(t) /\ UNCHANGED exceptRp

NextReplay ==
    \/ \E range \in LoadRanges : Load(range[1], range[2]) /\ UNCHANGED exceptRp
    \/ \E speed \in PlaySpeeds : Play(speed) /\ UNCHANGED exceptRp
    \/ Pause /\ UNCHANGED exceptRp
    \/ Stop /\ UNCHANGED exceptRp
    \/ FireTimer

SpecReplay == InitReplay /\ [][NextReplay]_vars

\* Timers that are pending do fire: weak fairness of FireTimer.  For the
\* class in AggregationEngine.js the condition is written out, with
\* ENABLED <<FireTimer>>_vars replaced by its meaning here, "a timer is
\* pending": firing a timer removes it from rpTimers or, when a new timer
\* takes its place, delivers a tick.
FairTimers ==
    /\ WF_vars(rpImpl = "storage" /\ FireTimer)
    /\ \/ []<>(rpImpl = "engine" => rpTimers = {})
       \/ []<><<FireTimer>>_vars

SpecReplayFair == SpecReplay /\ FairTimers

\* --- a ReplayEngine of either class that is loaded once and then played
\* and paused, play being called only while it is not running.  The ranges
\* hold every stored tick, all but the first, and none.
ResumeRanges == {<<{0}, {dbNow}>>, <<{1}, {dbNow}>>, <<{2}, {3}>>}

NextResume ==
    \/ \E range \in ResumeRanges :
          ResumeLoad(range[1], range[2]) /\ UNCHANGED exceptResume
    \/ \E speed \in PlaySpeeds : ResumePlay(speed) /\ UNCHANGED exceptResume
    \/ ResumePause /\ UNCHANGED exceptResume
    \/ \E t \in rpTimers : ResumeTimerFires(t) /\ UNCHANGED exceptResume

SpecResume == InitReplay /\ [][NextResume]_vars

\* --- the server: the engine, the FeedManager and the ReplayEngine of
\* AggregationEngine.js behind the REST routes.  server.listen's callback
\* has started the simulated feed.
FeedTypes == {{}, {"simulated"}, {"rithmic"}}

\* the ranges of LoadRanges and an inverted range whose upper bound is not 0
ServerRanges == LoadRanges \cup {<<{3}, {1}>>}

InitServer ==
    /\ is = isNew /\ RingIdle /\ InitFootprint /\ InitCvd /\ InitEngine
    /\ DomIdle /\ InitAlerts
    /\ ReplayNew("engine")
    /\ fm = FeedManager_startSimulated(FeedManager_new)
    /\ fmN = 0
    /\ res = noRequest

NextServer ==
    \/ \E range \in ServerRanges :
          PostReplayLoad(range[1], range[2]) /\ UNCHANGED exceptRoute
    \/ \E speed \in PlaySpeeds : PostReplayPlay(speed) /\ UNCHANGED exceptRoute
    \/ PostReplayPause /\ UNCHANGED exceptRoute
    \/ PostReplayStop /\ UNCHANGED exceptRoute
    \/ \E type \in FeedTypes : PostFeedStart(type) /\ UNCHANGED exceptFeed
    \/ PostFeedStop /\ UNCHANGED exceptFeed
    \/ \E price \in {1, 2}, side \in {"buy", "sell"} :
          FeedTrade(price, side) /\ UNCHANGED exceptFeed
    \/ FireTimer

SpecServer == InitServer /\ [][NextServer]_vars

(***************************************************************************)
(* C1: inferSide returns 'buy' when bid and ask are both defined and       *)
(* price >= ask; 'sell' when both are defined and price <= bid (and        *)
(* price < ask); otherwise, when prev is defined, 'buy' if price > prev    *)
(* and 'sell' if price < prev; in every remaining case 'unknown'.          *)
(***************************************************************************)
C1_BookDecides(a) ==
    /\ a.bidPrice # {} /\ a.askPrice # {}
    /\ (a.price >= Val(a.askPrice) \/ a.price <= Val(a.bidPrice))

C1_InferSideContract ==
    is.result # {} =>
        LET both == is.bidPrice # {} /\ is.askPrice # {}
            r    == Val(is.result)
        IN  /\ (both /\ is.price >= Val(is.askPrice)) => r = "buy"
            /\ (both /\ is.price <= Val(is.bidPrice)
                     /\ is.price < Val(is.askPrice)) => r = "sell"
            /\ (~C1_BookDecides(is) /\ is.prevPrice # {}
                     /\ is.price > Val(is.prevPrice)) => r = "buy"
            /\ (~C1_BookDecides(is) /\ is.prevPrice # {}
                     /\ is.price < Val(is.prevPrice)) => r = "sell"
            /\ (~C1_BookDecides(is)
                     /\ (is.prevPrice = {} \/ is.price = Val(is.prevPrice)))
                  => r = "unknown"

\* the book is known but the price is strictly inside the spread, and the
\* tick rule decides
C1_Witness ==
    /\ is.result = {"sell"}
    /\ is.bidPrice # {} /\ is.askPrice # {}
    /\ is.price > Val(is.bidPrice) /\ is.price < Val(is.askPrice)
    /\ is.prevPrice # {} /\ is.price < Val(is.prevPrice)

(***************************************************************************)
(* C2: the aggressor side the engine assigns to a trade that arrives       *)
(* without a side is a deterministic function of (price, previous trade    *)
(* price, last bid, last ask): two engines in the same state that ingest   *)
(* the same trade always assign the same side, including when no quote     *)
(* has been seen and no earlier trade exists.                              *)
(***************************************************************************)
C2_SideIsDeterministic ==
    engTwinSide # {} =>
        eng.trades[Len(eng.trades)].side = Val(engTwinSide)

(***************************************************************************)
(* C3: for a RingBuffer of capacity C >= 1 and k pushes, last(n) returns   *)
(* exactly the min(n, k, C) most recently pushed items, oldest first;      *)
(* size never exceeds C, and a push on a full buffer overwrites the        *)
(* oldest item.                                                            *)
(***************************************************************************)
C3_LastReturnsMostRecent ==
    /\ rb.size <= rb.capacity
    /\ rb.size = Min2(Len(rbPushed), rb.capacity)
    /\ rbOut.op = "last" =>
          /\ Len(rbOut.val) = Min2(rbOut.n, Min2(Len(rbPushed), rb.capacity))
          /\ \A i \in 1..Len(rbOut.val) :
                rbOut.val[i] = rbPushed[Len(rbPushed) - Len(rbOut.val) + i]
    /\ rbOut.op = "lastReversed" =>
          /\ Len(rbOut.val) = Min2(rbOut.n, Min2(Len(rbPushed), rb.capacity))
          /\ \A i \in 1..Len(rbOut.val) :
                rbOut.val[i] = rbPushed[Len(rbPushed) - i + 1]

\* six pushes into a buffer of capacity 3, then last(3)
C3_Witness ==
    /\ rb.capacity = 3 /\ Len(rbPushed) = 6
    /\ rbOut.op = "last" /\ rbOut.n = 3
    /\ rbOut.val = <<4, 5, 6>>

(***************************************************************************)
(* C4: drainSince(cursor), with cursor returned earlier by getHead(),       *)
(* returns all items pushed after the cursor was captured, in push order,  *)
(* for any number of pushes since the capture (a number equal to or larger *)
(* than the capacity included).                                            *)
(***************************************************************************)
C4_DrainReturnsAllSince ==
    (rbOut.op = "drainSince" /\ ~rbCleared) => rbOut.val = rbSince

(***************************************************************************)
(* C4, the case the code gets right: drainSince(cursor) returns all items  *)
(* pushed after the cursor was captured, in push order, when fewer than    *)
(* `capacity` items were pushed and clear() was not called since then.     *)
(***************************************************************************)
C4_DrainReturnsSinceBelowCapacity ==
    (rbOut.op = "drainSince" /\ ~rbCleared /\ Len(rbSince) < rb.capacity)
        => rbOut.val = rbSince

\* the cursor was captured after the buffer had wrapped, and the drained
\* range wraps around the end of the array
C4_Witness ==
    /\ rbOut.op = "drainSince" /\ ~rbCleared
    /\ rb.capacity = 3 /\ Len(rbSince) = 2 /\ Len(rbPushed) = 6
    /\ rb.head < Val(rbCursor)
    /\ rbOut.val = rbSince

(***************************************************************************)
(* Helpers of the statements below                                         *)
(***************************************************************************)
\* the sum of the sizes of the ticks of `ticks` whose side is `side`
RECURSIVE SumSizes(_, _)
SumSizes(ticks, side) ==
    IF ticks = <<>> THEN 0
    ELSE (IF Head(ticks).side = side THEN Head(ticks).size ELSE 0)
         + SumSizes(Tail(ticks), side)

PricesOf(ticks) == {ticks[i].price : i \in 1..Len(ticks)}
SidesOf(ticks) == {ticks[i].side : i \in 1..Len(ticks)}
MaxOf(S) == CHOOSE x \in S : \A y \in S : y <= x
MinOf(S) == CHOOSE x \in S : \A y \in S : x <= y

ZeroLevel == [bidVol |-> 0, askVol |-> 0, delta |-> 0]

(***************************************************************************)
(* C5: after any sequence of FootprintAggregator.ingest calls with any mix *)
(* of buy, sell and unknown sides, every level of the current bar has      *)
(* delta = askVol - bidVol, the bar has totalDelta = totalAskVol -         *)
(* totalBidVol, and totalDelta is the sum of the per-trade signed deltas   *)
(* (+size for a buy, -size for a sell) of the bar's ticks.                 *)
(***************************************************************************)
C5_DeltaIsAskMinusBid ==
    fp.currentBar # {} =>
        LET bar == Val(fp.currentBar)
        IN  /\ \A p \in DOMAIN bar.levels :
                  bar.levels[p].delta
                      = bar.levels[p].askVol - bar.levels[p].bidVol
            /\ bar.totalDelta = bar.totalAskVol - bar.totalBidVol
            /\ bar.totalDelta
                  = Whole(SumSizes(fpBarTicks, "buy")
                          - SumSizes(fpBarTicks, "sell"))

\* a bar that holds a buy, a sell and an unknown tick, net sold
C5_Witness ==
    /\ fp.currentBar # {}
    /\ SidesOf(fpBarTicks) = Side
    /\ Val(fp.currentBar).totalDelta < 0

(***************************************************************************)
(* C6: in the current bar, open is the price of the bar's first tick,      *)
(* close the price of its latest tick, high the maximum and low the        *)
(* minimum price of its ticks, so low <= min(open, close) <=               *)
(* max(open, close) <= high after every ingest.                            *)
(***************************************************************************)
C6_OhlcTracksTicks ==
    fp.currentBar # {} =>
        LET bar == Val(fp.currentBar)
        IN  /\ bar.open = fpBarTicks[1].price
            /\ bar.close = fpBarTicks[Len(fpBarTicks)].price
            /\ bar.high = MaxOf(PricesOf(fpBarTicks))
            /\ bar.low = MinOf(PricesOf(fpBarTicks))
            /\ bar.low <= Min2(bar.open, bar.close)
            /\ Min2(bar.open, bar.close) <= Max2(bar.open, bar.close)
            /\ Max2(bar.open, bar.close) <= bar.high

\* four ticks in one bar whose open, high, low and close all differ
C6_Witness ==
    /\ fp.currentBar # {}
    /\ Len(fpBarTicks) = 4
    /\ Val(fp.currentBar).open = 2 /\ Val(fp.currentBar).high = 4
    /\ Val(fp.currentBar).low = 1 /\ Val(fp.currentBar).close = 3

(***************************************************************************)
(* C7: after ingest(tick) the current bar's openTs is                      *)
(* floor(tick.ts / barDurationMs) * barDurationMs; when that key differs   *)
(* from the previous current bar's key, the previous bar is finalized and  *)
(* appended to completedBars exactly once, and the new current bar has     *)
(* open = high = low = close = tick.price and holds only that tick's       *)
(* volume.                                                                 *)
(***************************************************************************)
C7_SeededBy(bar, tick) ==
    /\ bar.open = tick.price /\ bar.high = tick.price
    /\ bar.low = tick.price /\ bar.close = tick.price
    /\ bar.totalVolume = Whole(tick.size)
    /\ bar.totalBidVol + bar.totalAskVol = Whole(tick.size)
    /\ Cardinality(DOMAIN bar.levels) = 1
    /\ \A p \in DOMAIN bar.levels :
          bar.levels[p].bidVol + bar.levels[p].askVol = Whole(tick.size)

C7_IngestStep ==
    fpN' = fpN + 1 =>
        LET tick == Val(fpTick')
            key == (tick.ts \div fp.barDurationMs) * fp.barDurationMs
            new == Val(fp'.currentBar)
        IN  /\ new.openTs = key
            /\ IF fp.currentBar = {}
               THEN /\ fp'.completedBars = fp.completedBars
                    /\ C7_SeededBy(new, tick)
               ELSE IF Val(fp.currentBar).openTs # key
               THEN /\ fp'.completedBars
                          = LastOf(Append(fp.completedBars,
                                     FootprintAggregator_finalizeBar(
                                         Val(fp.currentBar))), maxBars)
                    /\ C7_SeededBy(new, tick)
               ELSE /\ fp'.completedBars = fp.completedBars
                    /\ new.open = Val(fp.currentBar).open

C7_RotationOnKeyChange == [][C7_IngestStep]_vars

\* a tick exactly on a bucket boundary has just rotated a two-tick bar out
C7_Witness ==
    /\ fpTick # {} /\ fp.currentBar # {}
    /\ Val(fpTick).ts = fp.barDurationMs
    /\ Val(fp.currentBar).openTs = fp.barDurationMs
    /\ Len(fpBarTicks) = 1
    /\ Len(fp.completedBars) >= 1
    /\ fp.completedBars[Len(fp.completedBars)].openTs = 0
    /\ fp.completedBars[Len(fp.completedBars)].totalVolume = Whole(2)

(***************************************************************************)
(* C8: the completed-bar history never holds more than maxBars bars; when  *)
(* a rotation would exceed the cap the oldest bar is evicted;              *)
(* getCompletedBars(n) returns the min(n, count) most recently completed   *)
(* bars in completion order, newest last.                                  *)
(***************************************************************************)
C8_CompletedBarsAreMostRecent ==
    /\ Len(fp.completedBars) <= maxBars
    /\ fp.completedBars = LastOf(fpDone, maxBars)
    /\ fpOut.op = "getCompletedBars" =>
          fpOut.val = LastOf(fpDone, Min2(fpOut.n, Len(fp.completedBars)))

\* the part of C8 that the code satisfies: the cap, the eviction order, and
\* getCompletedBars(n) for n >= 1
C8_HoldsForPositiveN ==
    /\ Len(fp.completedBars) <= maxBars
    /\ fp.completedBars = LastOf(fpDone, maxBars)
    /\ (fpOut.op = "getCompletedBars" /\ fpOut.n >= 1) =>
          fpOut.val = LastOf(fpDone, Min2(fpOut.n, Len(fp.completedBars)))

\* a bar has been evicted, and getCompletedBars(1) returned the newest one
C8_Evicted ==
    /\ Len(fpDone) > maxBars
    /\ fpOut.op = "getCompletedBars" /\ fpOut.n = 1
    /\ fpOut.val = <<fpDone[Len(fpDone)]>>

(***************************************************************************)
(* C9: a tick with side 'unknown' and size s adds s/2 to bidVol and s/2 to *)
(* askVol of its footprint level (and of the bar totals) without changing  *)
(* any delta, while CvdCalculator.ingest of the same tick leaves the       *)
(* cumulative value and the per-bar delta unchanged.  "Unchanged" is       *)
(* relative to the bar or bucket the tick falls in: a tick that opens a    *)
(* new bar or bucket finds volumes and per-bar delta at zero.              *)
(***************************************************************************)
C9_IngestStep ==
    (fpN' = fpN + 1 /\ Val(fpTick').side = "unknown") =>
        LET tick == Val(fpTick')
            new == Val(fp'.currentBar)
            sameBar == /\ fp.currentBar # {}
                       /\ Val(fp.currentBar).openTs = new.openTs
            rp == FootprintAggregator_roundToTick(tick.price)
            oldLevels == IF sameBar THEN Val(fp.currentBar).levels ELSE <<>>
            before == IF rp \in DOMAIN oldLevels THEN oldLevels[rp]
                      ELSE ZeroLevel
            bidBefore == IF sameBar THEN Val(fp.currentBar).totalBidVol ELSE 0
            askBefore == IF sameBar THEN Val(fp.currentBar).totalAskVol ELSE 0
            deltaBefore == IF sameBar THEN Val(fp.currentBar).totalDelta ELSE 0
            sameBucket ==
                cvd.currentBarTs
                    = {(tick.ts \div cvdBarDurationMs) * cvdBarDurationMs}
        IN  /\ new.levels[rp].bidVol = before.bidVol + Half(tick.size)
            /\ new.levels[rp].askVol = before.askVol + Half(tick.size)
            /\ new.levels[rp].delta = before.delta
            /\ \A p \in DOMAIN new.levels \ {rp} : new.levels[p] = oldLevels[p]
            /\ new.totalBidVol = bidBefore + Half(tick.size)
            /\ new.totalAskVol = askBefore + Half(tick.size)
            /\ new.totalDelta = deltaBefore
            /\ cvd'.sessionCvd = cvd.sessionCvd
            /\ cvd'.barCvd = IF sameBucket THEN cvd.barCvd ELSE 0
            /\ cvdOut'.val[1].cvd = cvd.sessionCvd

C9_UnknownSplitsEvenly == [][C9_IngestStep]_vars

\* an unknown tick of odd size has joined a level that already held volume,
\* in a session whose CVD is not zero
C9_Witness ==
    /\ fpTick # {} /\ fp.currentBar # {}
    /\ Val(fpTick).side = "unknown" /\ Val(fpTick).size = 1
    /\ Len(fpBarTicks) = 3
    /\ Cardinality(DOMAIN Val(fp.currentBar).levels) = 1
    /\ Val(fp.currentBar).totalDelta # 0
    /\ cvd.sessionCvd # 0 /\ cvd.barCvd # 0

(***************************************************************************)
(* C10: after any sequence of CvdCalculator.ingest calls since the last    *)
(* resetSession, sessionCvd is the sum of the sizes of the buy ticks minus *)
(* the sum of the sizes of the sell ticks, and the point returned by each  *)
(* ingest carries that running value as cvd.                               *)
(***************************************************************************)
C10_SessionCvdIsBuysMinusSells ==
    /\ cvd.sessionCvd
          = SumSizes(cvdTicks, "buy") - SumSizes(cvdTicks, "sell")
    /\ cvdOut.op = "ingest" =>
          cvdOut.val[1].cvd
              = SumSizes(cvdTicks, "buy") - SumSizes(cvdTicks, "sell")

\* after a reset, a buy and a larger sell
C10_Witness ==
    /\ cvdN = 3 /\ Len(cvdTicks) = 2
    /\ cvdOut.op = "ingest"
    /\ cvdTicks[1].side = "buy" /\ cvdTicks[2].side = "sell"
    /\ cvd.sessionCvd = 0 - 1

(***************************************************************************)
(* C11: CvdCalculator.resetSession() zeroes the cumulative state and       *)
(* empties the history: immediately afterwards sessionCvd = 0 and          *)
(* getHistory(), with its default n or any other n, is empty, whatever was *)
(* ingested before.                                                        *)
(***************************************************************************)
C11_ResetClearsCvdAndHistory ==
    cvdOut.op = "resetSession" =>
        /\ cvd.sessionCvd = 0
        /\ \A n \in (0..MaxN) \cup {getHistoryDefaultN} :
              CvdCalculator_getHistory(cvd, n) = <<>>

\* a reset after three ingests that left a non-zero running value behind
C11_Witness ==
    /\ cvdOut.op = "resetSession"
    /\ cvdN = 3
    /\ cvdLast # {} /\ Val(cvdLast).barDelta # 0

(***************************************************************************)
(* C12: the CVD history never holds more than maxHistory points after any  *)
(* number of ingests; it is kept in insertion order and the oldest point   *)
(* is the one evicted; getHistory(n) returns the last min(n, length)       *)
(* points.                                                                 *)
(***************************************************************************)
C12_HistoryIsCappedAndOrdered ==
    /\ Len(cvd.history) <= maxHistory
    /\ cvd.history = LastOf(cvdPoints, maxHistory)

C12_HistoryIsMostRecent ==
    /\ C12_HistoryIsCappedAndOrdered
    /\ cvdOut.op = "getHistory" =>
          cvdOut.val = LastOf(cvd.history, Min2(cvdOut.n, Len(cvd.history)))

\* C12 for the calls with n >= 1
C12_HoldsForPositiveN ==
    /\ C12_HistoryIsCappedAndOrdered
    /\ (cvdOut.op = "getHistory" /\ cvdOut.n >= 1) =>
          cvdOut.val = LastOf(cvd.history, Min2(cvdOut.n, Len(cvd.history)))

\* one more point than the cap was ingested and the oldest one is gone
C12_Evicted ==
    /\ Len(cvdPoints) = maxHistory + 1
    /\ Len(cvd.history) = maxHistory
    /\ cvdPoints[1] # cvd.history[1]
    /\ cvdOut.op = "getHistory" /\ cvdOut.n = 1
    /\ cvdOut.val = <<cvdPoints[maxHistory + 1]>>

(***************************************************************************)
(* C13: the per-bar delta of CvdCalculator resets whenever the bar bucket  *)
(* floor(ts / barDurationMs) * barDurationMs of the ingested tick differs  *)
(* from the bucket of the previous tick: the first point of a new bucket   *)
(* has barDelta equal to that tick's signed delta, and within a bucket     *)
(* barDelta accumulates the signed deltas.                                 *)
(***************************************************************************)
SignedDelta(tick) ==
    IF tick.side = "buy" THEN tick.size
    ELSE IF tick.side = "sell" THEN 0 - tick.size ELSE 0

C13_IngestStep ==
    cvdN' = cvdN + 1 =>
        LET tick == Val(cvdLast').tick
            barDelta == cvdOut'.val[1].barDelta
        IN  IF cvdLast = {}
               \/ BarKey(Val(cvdLast).tick.ts, cvdBarDurationMs)
                    # BarKey(tick.ts, cvdBarDurationMs)
            THEN barDelta = SignedDelta(tick)
            ELSE barDelta = Val(cvdLast).barDelta + SignedDelta(tick)

C13_BarDeltaResetsOnBucketChange == [][C13_IngestStep]_vars

\* two ticks accumulated in one bucket, then the first tick of the next
C13_Witness ==
    /\ cvdN = 3 /\ cvdOut.op = "ingest"
    /\ Len(cvdPoints) = 3
    /\ cvdPoints[1].barDelta = 2 /\ cvdPoints[2].barDelta = 3
    /\ cvdPoints[3].barDelta = 0 - 1
    /\ BarKey(cvdPoints[2].ts, cvdBarDurationMs)
          # BarKey(cvdPoints[3].ts, cvdBarDurationMs)

(***************************************************************************)
(* Helpers of the DomBuilder statements                                    *)
(***************************************************************************)
\* the levels of an update array whose size is > 0, as (price, size) pairs
PositiveLevels(levels) ==
    {<<levels[i].price, levels[i].size>> :
        i \in {j \in DOMAIN levels : levels[j].size > 0}}

PositivePrices(levels) == {l[1] : l \in PositiveLevels(levels)}

\* the (price, size) pairs a snapshot lists on one side
Listed(side) == {<<side[i].price, side[i].size>> : i \in DOMAIN side}

ListedPrices(side) == {side[i].price : i \in DOMAIN side}

StrictlyDescending(side) ==
    \A i \in 1..(Len(side) - 1) : side[i].price > side[i + 1].price

StrictlyAscending(side) ==
    \A i \in 1..(Len(side) - 1) : side[i].price < side[i + 1].price

(***************************************************************************)
(* C14: after DomBuilder.update(bids, asks), snapshot() lists only the     *)
(* levels of that latest update whose size is > 0, bids in strictly        *)
(* descending and asks in strictly ascending price order; bestBid is the   *)
(* highest such bid price, bestAsk the lowest such ask price and spread =  *)
(* bestAsk - bestBid; when a side is empty its best price and the spread   *)
(* are null.                                                               *)
(***************************************************************************)
C14_SnapshotListsLatestUpdate ==
    (domOut.op = "snapshot" /\ domN >= 1) =>
        LET snap == domOut.val[1]
            bidPrices == PositivePrices(domInput.bids)
            askPrices == PositivePrices(domInput.asks)
        IN  /\ Listed(snap.bids) \subseteq PositiveLevels(domInput.bids)
            /\ Listed(snap.asks) \subseteq PositiveLevels(domInput.asks)
            /\ StrictlyDescending(snap.bids)
            /\ StrictlyAscending(snap.asks)
            /\ snap.bestBid = IF bidPrices = {} THEN {} ELSE {MaxOf(bidPrices)}
            /\ snap.bestAsk = IF askPrices = {} THEN {} ELSE {MinOf(askPrices)}
            /\ snap.spread = IF bidPrices = {} \/ askPrices = {} THEN {}
                             ELSE {MinOf(askPrices) - MaxOf(bidPrices)}

\* the second update sets a price of the first to size 0; both sides list
\* two levels in order and the spread is 3 - 2
C14_Witness ==
    /\ domOut.op = "snapshot" /\ domN = 2
    /\ Map_has(domBefore.bids, 1)
    /\ domInput.bids
          = <<[price |-> 1, size |-> 0], [price |-> 2, size |-> 3]>>
    /\ Len(domOut.val[1].asks) = 2
    /\ domOut.val[1].bestBid = {2}
    /\ domOut.val[1].bestAsk = {3}
    /\ domOut.val[1].spread = {1}

\* an update with no bids: bestBid and spread are null, bestAsk is not
C14_WitnessEmptySide ==
    /\ domOut.op = "snapshot" /\ domN = 2
    /\ domInput.bids = <<>> /\ domInput.asks # <<>>
    /\ domOut.val[1].bestBid = {} /\ domOut.val[1].spread = {}
    /\ domOut.val[1].bestAsk = {3}

(***************************************************************************)
(* C15: every level in a DomBuilder snapshot is classified relative to the *)
(* book as it was before the latest update: 'added' iff its price was      *)
(* absent, 'modified' iff present with a different size, 'unchanged' iff   *)
(* present with the same size; calling snapshot() again without an update  *)
(* yields the same classification.                                         *)
(***************************************************************************)
C15_ClassifiedAgainst(levels, before) ==
    \A i \in DOMAIN levels :
        LET l == levels[i]
            was == Map_get(before, l.price)
        IN  /\ l.change \in {"added", "modified", "unchanged"}
            /\ l.change = "added" <=> was = {}
            /\ l.change = "modified" <=> (was # {} /\ Val(was) # l.size)
            /\ l.change = "unchanged" <=> was = {l.size}

C15_SnapshotStep ==
    domOut'.op = "snapshot" =>
        /\ C15_ClassifiedAgainst(domOut'.val[1].bids, domBefore'.bids)
        /\ C15_ClassifiedAgainst(domOut'.val[1].asks, domBefore'.asks)
        /\ domOut.op = "snapshot" => domOut'.val = domOut.val

C15_ChangeIsRelativeToPreviousBook == [][C15_SnapshotStep]_vars

\* one bid shrank, one bid kept its size, the asks are new
C15_Witness ==
    /\ domOut.op = "snapshot" /\ domN = 2
    /\ \E i, j \in DOMAIN domOut.val[1].bids :
          /\ domOut.val[1].bids[i].change = "modified"
          /\ domOut.val[1].bids[i].size < Val(domOut.val[1].bids[i].prevSize)
          /\ domOut.val[1].bids[j].change = "unchanged"
    /\ \E i \in DOMAIN domOut.val[1].asks :
          domOut.val[1].asks[i].change = "added"

(***************************************************************************)
(* C16: every price that had non-zero size in the book before the latest   *)
(* DomBuilder.update and is absent from (or has size 0 in) that update is  *)
(* reported separately as removed in snapshot().pulledBids / pulledAsks,   *)
(* and is not part of the ranked bids/asks view.                           *)
(***************************************************************************)
C16_RemovedOn(before, input, pulled, ranked) ==
    \A price \in Map_keys(before) \ PositivePrices(input) :
        /\ \E i \in DOMAIN pulled :
              pulled[i].price = price /\ pulled[i].change = "removed"
        /\ price \notin ListedPrices(ranked)

C16_RemovedLevelsAreReported ==
    domOut.op = "snapshot" =>
        /\ C16_RemovedOn(domBefore.bids, domInput.bids,
                         domOut.val[1].pulledBids, domOut.val[1].bids)
        /\ C16_RemovedOn(domBefore.asks, domInput.asks,
                         domOut.val[1].pulledAsks, domOut.val[1].asks)

\* C16, what the code does: a removed price is never in the ranked view,
\* and it is in the pulled list exactly when its previous size is at least
\* the large threshold of the book after the update
C16_LargeRemovedOn(before, input, pulled, ranked) ==
    \A price \in Map_keys(before) \ PositivePrices(input) :
        /\ price \notin ListedPrices(ranked)
        /\ (\E i \in DOMAIN pulled : pulled[i].price = price)
              <=> DomBuilder_atLeastLarge(dom, Val(Map_get(before, price)))

C16_LargeRemovedLevelsAreReported ==
    domOut.op = "snapshot" =>
        /\ C16_LargeRemovedOn(domBefore.bids, domInput.bids,
                              domOut.val[1].pulledBids, domOut.val[1].bids)
        /\ C16_LargeRemovedOn(domBefore.asks, domInput.asks,
                              domOut.val[1].pulledAsks, domOut.val[1].asks)

\* a removed large level is reported on each side
C16_PulledReported ==
    /\ domOut.op = "snapshot"
    /\ domOut.val[1].pulledBids # <<>>
    /\ domOut.val[1].pulledAsks # <<>>

(***************************************************************************)
(* C17: for AlertEvaluator, two qualifying large-print evaluations within  *)
(* one throttle window return exactly one large_print alert in total, and  *)
(* a further qualifying evaluation made after the window has elapsed       *)
(* returns another one.  The window opens with a returned alert and an     *)
(* evaluation is within it up to and including throttleMs later; so a      *)
(* qualifying evaluation returns an alert exactly when no alert was        *)
(* returned in the throttleMs before it.                                   *)
(***************************************************************************)
C17_ThrottleGivesOneAlertPerWindow ==
    \A j \in DOMAIN aeLargeLog :
        aeLargeLog[j].fired
            <=> ~\E i \in 1..(j - 1) :
                    /\ aeLargeLog[i].fired
                    /\ aeLargeLog[j].ts - aeLargeLog[i].ts <= throttleMs

\* three qualifying evaluations: an alert, none within the window, and
\* another alert after the window
C17_Witness ==
    /\ Len(aeLargeLog) = 3
    /\ aeLargeLog[1].fired /\ ~aeLargeLog[2].fired /\ aeLargeLog[3].fired
    /\ aeLargeLog[2].ts > aeLargeLog[1].ts
    /\ aeLargeLog[2].ts - aeLargeLog[1].ts <= throttleMs
    /\ aeLargeLog[3].ts - aeLargeLog[1].ts > throttleMs

(***************************************************************************)
(* C18: AlertEvaluator throttle state is keyed by alert type only: an      *)
(* alert of one type that fired or was throttled never suppresses a        *)
(* qualifying alert of a different type, so an evaluate call returns an    *)
(* alert of a type exactly when that type's condition holds and no alert   *)
(* of that same type was returned in the throttleMs before; it returns at  *)
(* most one alert per type, up to four alerts of distinct types.           *)
(***************************************************************************)
C18_Qualifies(type, in) ==
    CASE type = "large_print" ->
            in.metrics # {} /\ Val(in.metrics).isLarge
      [] type = "delta_threshold" ->
            /\ in.cvdPoint # {}
            /\ \/ Val(in.cvdPoint).cvd >= deltaThreshold
               \/ 0 - Val(in.cvdPoint).cvd >= deltaThreshold
      [] type = "tape_speed" ->
            in.metrics # {} /\ Val(in.metrics).tapeSpeed >= tapeSpeedThreshold
      [] type = "dom_imbalance" ->
            /\ in.dom # {}
            /\ Val(in.dom).bids # <<>> /\ Val(in.dom).asks # <<>>
            /\ LET b == Val(in.dom).bids[1].size
                   a == Val(in.dom).asks[1].size
               IN  /\ b > 0 /\ a > 0
                   /\ (b >= domImbalanceRatio * a \/ a >= domImbalanceRatio * b)

C18_EvaluateStep ==
    aeN' = aeN + 1 =>
        /\ \A type \in AlertTypes :
              type \in TypesOf(aeOut'.alerts)
                  <=> /\ C18_Qualifies(type, aeOut'.in)
                      /\ \/ aeFired[type] = {}
                         \/ aeNow - Val(aeFired[type]) > throttleMs
        /\ \A i, j \in DOMAIN aeOut'.alerts :
              aeOut'.alerts[i].type = aeOut'.alerts[j].type => i = j
        /\ Len(aeOut'.alerts) <= 4

C18_ThrottleIsPerType == [][C18_EvaluateStep]_vars

\* the second call: large_print qualifies and is throttled by the first
\* call's alert, and the three other types are returned all the same
C18_Witness ==
    /\ aeN = 2 /\ aeOut.op = "evaluate"
    /\ C18_Qualifies("large_print", aeOut.in)
    /\ aeFired["large_print"] # {}
    /\ aeOut.now - Val(aeFired["large_print"]) <= throttleMs
    /\ aeOut.now > Val(aeFired["large_print"])
    /\ TypesOf(aeOut.alerts) = AlertTypes \ {"large_print"}

\* one call returns four alerts
C18_FourAlerts ==
    /\ aeOut.op = "evaluate"
    /\ Len(aeOut.alerts) = 4
    /\ TypesOf(aeOut.alerts) = AlertTypes

(***************************************************************************)
(* C19: AlertEvaluator.updateConfig changes only the threshold values: the *)
(* per-type last-fired timestamps and throttleMs are left unchanged, so an *)
(* alert type throttled before updateConfig is still throttled after it    *)
(* until its window elapses.                                               *)
(***************************************************************************)
C19_Step ==
    /\ (aeOut'.op = "updateConfig" /\ aeN' = aeN /\ aeNow' = aeNow) =>
          /\ ae'.recentAlerts = ae.recentAlerts
          /\ ae'.throttleMs = ae.throttleMs
    /\ (aeOut.op = "updateConfig" /\ aeN' = aeN + 1) =>
          \A type \in AlertTypes :
              (aeFired[type] # {} /\ aeNow - Val(aeFired[type]) <= throttleMs)
                  => type \notin TypesOf(aeOut'.alerts)

C19_UpdateConfigKeepsThrottle == [][C19_Step]_vars

\* right after an updateConfig that also passed a throttleMs key:
\* large_print fired before the call and is throttled still
C19_Witness ==
    /\ aeOut.op = "updateConfig"
    /\ "throttleMs" \in DOMAIN ae.config
    /\ ae.throttleMs = throttleMs
    /\ aeFired["large_print"] # {}
    /\ aeNow > Val(aeFired["large_print"])
    /\ aeNow - Val(aeFired["large_print"]) <= throttleMs
    /\ ae.recentAlerts["large_print"] = aeFired["large_print"]
    /\ ~AlertEvaluator_canAlert(ae, "large_print", aeNow)

(***************************************************************************)
(* C20: when the large_print type is not throttled, AlertEvaluator.        *)
(* evaluate returns a large_print alert exactly when tick.size >= the      *)
(* evaluator's configured large-print threshold (config.largePrintSize,    *)
(* including a value set through updateConfig).                            *)
(***************************************************************************)
C20_LargePrintBySize ==
    aeOut.op = "evaluate" =>
        LET fired == "large_print" \in TypesOf(aeOut.alerts)
            last == aeFired["large_print"]
            notThrottled ==
                fired \/ last = {} \/ aeOut.now - Val(last) > ae.throttleMs
        IN  notThrottled =>
                (fired <=> aeOut.in.tick.size >= ae.config.largePrintSize)

\* C20, what the code does: the alert follows the caller's metrics.isLarge
C20_LargePrintByMetrics ==
    aeOut.op = "evaluate" =>
        LET fired == "large_print" \in TypesOf(aeOut.alerts)
            last == aeFired["large_print"]
            notThrottled ==
                fired \/ last = {} \/ aeOut.now - Val(last) > ae.throttleMs
        IN  notThrottled =>
                (fired <=> (aeOut.in.metrics # {}
                            /\ Val(aeOut.in.metrics).isLarge))

(***************************************************************************)
(* C21: no dom_imbalance alert is produced when the bid size or the ask    *)
(* size entering the ratio is zero, neither by the engine's depth          *)
(* handling (onDepth -> _checkDOMImbalance, over the liquidity summed on   *)
(* each side) nor by AlertEvaluator.evaluate (over the best bid and ask    *)
(* sizes).                                                                 *)
(***************************************************************************)
EngineDomAlerts ==
    {i \in DOMAIN engDepthEvents : engDepthEvents[i].type = "dom_imbalance"}

\* the engine's half: after an onDepth call whose book has a side summing
\* to zero, the call emitted no dom_imbalance alert
C21_EngineSkipsZeroSide ==
    (\/ AggregationEngine_liquidity(eng.dom.bids, 1) = 0
     \/ AggregationEngine_liquidity(eng.dom.asks, 1) = 0)
        => EngineDomAlerts = {}

BestSize(side) == IF side = <<>> THEN 0 ELSE side[1].size

\* the evaluator's half: an evaluation of a book whose best bid or best
\* ask size is zero (or missing) returned no dom_imbalance alert
C21_EvaluatorSkipsZeroSide ==
    (/\ aeOut.op = "evaluate"
     /\ aeOut.in.dom # {}
     /\ \/ BestSize(Val(aeOut.in.dom).bids) = 0
        \/ BestSize(Val(aeOut.in.dom).asks) = 0)
        => "dom_imbalance" \notin TypesOf(aeOut.alerts)

\* C21 as stated: both halves
C21_NoDomAlertOnZeroSide ==
    C21_EngineSkipsZeroSide /\ C21_EvaluatorSkipsZeroSide

\* reachable: the evaluator was given a book with a zero best size
C21_EvaluatorWitness ==
    /\ aeOut.op = "evaluate"
    /\ aeOut.in.dom # {}
    /\ BestSize(Val(aeOut.in.dom).bids) = 0
    /\ BestSize(Val(aeOut.in.dom).asks) > 0

(***************************************************************************)
(* C22: in each ReplayEngine class, play() called when no ticks are        *)
(* loaded fails with an explicit caller-visible error, delivers no tick    *)
(* and leaves the scheduler not running.                                   *)
(***************************************************************************)
PlayedOnEmpty == rpOut.call = "play" /\ rpOut.before.total = 0

C22_PlayOnEmptyFails ==
    PlayedOnEmpty =>
        /\ rpOut.threw
        /\ rpDelivered = <<>>
        /\ ~Status.running

\* what the class in AggregationEngine.js does: the call throws, and no
\* tick is delivered
C22_EnginePlayOnEmptyThrows ==
    (PlayedOnEmpty /\ rpImpl = "engine") =>
        rpOut.threw /\ rpDelivered = <<>>

\* what the class in storage.js does: nothing, silently
C22_StoragePlayOnEmptyIsSilent ==
    (PlayedOnEmpty /\ rpImpl = "storage") =>
        /\ ~rpOut.threw /\ rpOut.returned = {}
        /\ rpDelivered = <<>>
        /\ ~Status.running

(***************************************************************************)
(* C23: loading a range with zero matching ticks returns count 0 and does  *)
(* not start playback: after load returns the scheduler is not running,    *)
(* the position is 0 and no tick has been delivered.                       *)
(***************************************************************************)
LoadedNothing == rpOut.call = "load" /\ Status.total = 0

C23_EmptyLoadLeavesIdle ==
    LoadedNothing =>
        /\ rpOut.returned = {0}
        /\ ~Status.running
        /\ Status.position = 0
        /\ rpDelivered = <<>>

\* the same, for a load made while no replay is running
C23_EmptyLoadWhenNotRunning ==
    (LoadedNothing /\ ~rpOut.before.running) => C23_EmptyLoadLeavesIdle

\* the same, for the class in storage.js
C23_StorageEmptyLoadLeavesIdle ==
    (LoadedNothing /\ rpImpl = "storage") => C23_EmptyLoadLeavesIdle

(***************************************************************************)
(* C24: in each ReplayEngine class, pause() leaves the position unchanged  *)
(* and stop() sets it to zero; after either call the status reports not    *)
(* running; and a play() that follows a pause() delivers, first, the tick  *)
(* at the position the pause preserved.                                    *)
(***************************************************************************)
C24_PauseKeepsStopRewinds ==
    /\ rpOut.call = "pause" =>
          ~Status.running /\ Status.position = rpOut.before.position
    /\ rpOut.call = "stop" =>
          ~Status.running /\ Status.position = 0
    /\ (/\ rpOut.call = "play" /\ rpOut.prev = "pause"
        /\ rpOut.before.position < rpOut.before.total) =>
          /\ rpDelivered # <<>>
          /\ rpDelivered[1] = replay.ticks[rpOut.before.position + 1].id

\* reachable, in each class: a replay paused in the middle of the set and
\* played again
C24_Witness ==
    /\ rpImpl = "engine"
    /\ rpOut.call = "play" /\ rpOut.prev = "pause"
    /\ rpOut.before.position > 0
    /\ rpOut.before.position < rpOut.before.total
    /\ rpDelivered # <<>>

C24_StorageWitness ==
    /\ rpImpl = "storage"
    /\ rpOut.call = "play" /\ rpOut.prev = "pause"
    /\ rpOut.before.position > 0
    /\ rpOut.before.position < rpOut.before.total
    /\ rpDelivered # <<>>

(***************************************************************************)
(* C25: for any sequence of load, play, pause and stop calls interleaved   *)
(* with timer firings, play() called more than once before a pause         *)
(* included, once pause() or stop() has returned no replayed tick is       *)
(* delivered until play() is called again.                                 *)
(***************************************************************************)
C25_NoDeliveryAfterPauseOrStop ==
    rpOut.call \in {"pause", "stop"} => rpDelivered = <<>>

\* reachable: play() was called twice, and after the pause a timer of the
\* first play is still pending
C25_Witness ==
    /\ rpOut.call = "pause"
    /\ rpOut.before.running
    /\ rpTimers # {}
    /\ Status.position < Status.total

(***************************************************************************)
(* C26: if play() is called on a non-empty loaded set and no pause, stop   *)
(* or load follows, then, timers being fired fairly, the replay reaches    *)
(* Complete: the status reports not running with position = total.         *)
(***************************************************************************)
Complete == ~Status.running /\ Status.position = Status.total

C26_PlayRunsToComplete ==
    (rpOut.call = "play" /\ rpOut.before.total > 0)
        ~> (Complete \/ rpOut.call # "play")

\* reachable: one play() from position 0 delivered the whole set
C26_Witness ==
    /\ rpOut.call = "play" /\ rpOut.prev = "load"
    /\ Status.total = MaxStored
    /\ Complete
    /\ Len(rpDelivered) = MaxStored

(***************************************************************************)
(* C27: while playing, the delay scheduled before the next tick is         *)
(* (nextTick.ts - currentTick.ts) / speedMultiplier, never negative and    *)
(* never larger than a fixed maximum, for any pair of stored timestamps    *)
(* and any speed, in each ReplayEngine class.                              *)
(***************************************************************************)
\* the delay is a number in 0..maxDelayMs
Clamped(delay) ==
    /\ delay.kind = "num"
    /\ delay.num >= 0
    /\ delay.num <= maxDelayMs * delay.den

\* the delay is gap / speed wherever that quotient is in 0..maxDelayMs
IsQuotient(t) ==
    (t.speed > 0 /\ t.gap >= 0 /\ t.gap <= maxDelayMs * t.speed) =>
        t.delay.num * t.speed = t.gap * t.delay.den

C27_DelayIsClampedQuotient ==
    \A t \in rpTimers : Clamped(t.delay) /\ IsQuotient(t)

\* the class in storage.js does clamp
C27_StorageDelayIsClamped ==
    rpImpl = "storage" => C27_DelayIsClampedQuotient

\* the class in AggregationEngine.js keeps the delay non-negative, and
\* schedules the bare quotient at any positive speed
C27_EngineDelayIsQuotient ==
    rpImpl = "engine" =>
        \A t \in rpTimers :
            /\ t.delay.kind = "num" /\ t.delay.num >= 0
            /\ t.speed > 0 => t.delay.num * t.speed = t.gap * t.delay.den

(***************************************************************************)
(* C28: the replay scheduler has at most one pending timer at any moment,  *)
(* for every sequence of load, play, pause and stop calls.                 *)
(***************************************************************************)
C28_AtMostOnePendingTimer == Cardinality(rpTimers) <= 1

(***************************************************************************)
(* C29: replay.load called with an inverted range (fromTs > toTs) or with  *)
(* a missing range bound is surfaced to the caller as an error; it does    *)
(* not succeed with an empty or defaulted result.                          *)
(***************************************************************************)
MissingBound == res.req[1] = {} \/ res.req[2] = {}

InvertedRange ==
    ~MissingBound /\ Val(res.req[1]) > Val(res.req[2])

C29_BadRangeIsAnError ==
    (res.route = "/replay/load" /\ (MissingBound \/ InvertedRange)) =>
        res.status >= 400

\* what the code does: every load is answered 200; an inverted range gives
\* count 0, unless its upper bound is 0, which getTicks replaces by the
\* current time as it does a missing one
C29_BadRangeSucceeds ==
    res.route = "/replay/load" =>
        /\ res.status = 200
        /\ (InvertedRange /\ res.req[2] # {0}) => res.body = {0}

(***************************************************************************)
(* C30: there is a single active tick source at a time: the control        *)
(* surface never has a started feed and a playing replay feeding onTrade   *)
(* of the same AggregationEngine.                                          *)
(***************************************************************************)
C30_SingleActiveSource ==
    ~(FeedManager_getStatus(fm).running /\ Status.running)

\* the same, on the ticks: the feed hands no trade to the engine while the
\* replay is running
C30_NoFeedTradeWhileReplaying ==
    [][Status.running => fmN' = fmN]_vars

(***************************************************************************)
(* C31: in a finalized FootprintAggregator bar, for each adjacent pair     *)
(* (lower, upper) of occupied price levels in ascending order, an 'ask'    *)
(* imbalance at the lower price is present iff upper.bidVol > 0 and        *)
(* lower.askVol >= imbalanceRatio * upper.bidVol, and a 'bid' imbalance at *)
(* the upper price is present iff lower.askVol > 0 and upper.bidVol >=     *)
(* imbalanceRatio * lower.askVol; a zero denominator is never flagged.     *)
(***************************************************************************)
\* the bars _finalizeBar has run on: the completed bars and the bar
\* getCurrentBar returned
FinalizedBars ==
    {fpDone[i] : i \in DOMAIN fpDone}
        \cup (IF fpOut.op = "getCurrentBar"
              THEN {fpOut.val[i] : i \in DOMAIN fpOut.val} ELSE {})

Flagged(bar, price, side) ==
    \E i \in DOMAIN bar.imbalances :
        bar.imbalances[i].price = price /\ bar.imbalances[i].side = side

AdjacentPairs(bar) ==
    {pair \in (DOMAIN bar.levels) \X (DOMAIN bar.levels) :
        /\ pair[1] < pair[2]
        /\ ~\E p \in DOMAIN bar.levels : pair[1] < p /\ p < pair[2]}

C31_ZeroDenominatorWitness ==
    \E bar \in FinalizedBars : \E pair \in AdjacentPairs(bar) :
        /\ bar.levels[pair[2]].bidVol = 0
        /\ bar.levels[pair[1]].askVol > 0
        /\ bar.imbalances = <<>>

(***************************************************************************)
(* C32: after every trade processed by the engine, the current bar's point *)
(* of control (poc) is a price level of that bar whose total volume        *)
(* (buyVol + sellVol) is maximal among the bar's levels with non-zero      *)
(* volume.                                                                 *)
(***************************************************************************)
LevelTotal(bar, p) == bar.levels[p].buyVol + bar.levels[p].sellVol

C32_PocHasMaximalVolume ==
    eng.currentBar # {} =>
        LET bar == Val(eng.currentBar)
            occupied == {p \in DOMAIN bar.levels : LevelTotal(bar, p) > 0}
        IN  /\ occupied # {}
            /\ bar.poc \in occupied
            /\ \A q \in occupied : LevelTotal(bar, bar.poc) >= LevelTotal(bar, q)

\* a bar with two levels whose point of control is the level that was
\* traded second
C32_Witness ==
    /\ eng.currentBar # {}
    /\ Len(Val(eng.currentBar).levelKeys) = 2
    /\ Val(eng.currentBar).poc = Val(eng.currentBar).levelKeys[2]

(***************************************************************************)
(* C33: in the AggregationEngine's bar, for adjacent occupied price levels *)
(* A (lower) and B (higher), an 'ask_imbalance' entry is recorded when     *)
(* B.buyVol / A.sellVol >= ratio and a 'bid_imbalance' entry when          *)
(* A.sellVol / B.buyVol >= ratio (ratio IMBALANCE_RATIO), as the README    *)
(* defines them.  The entry may sit at either price of the pair.           *)
(***************************************************************************)
Recorded(bar, prices, type) ==
    \E i \in DOMAIN bar.imbalances :
        bar.imbalances[i].price \in prices /\ bar.imbalances[i].type = type

C33_ImbalancesAsInReadme ==
    eng.currentBar # {} =>
        LET bar == Val(eng.currentBar)
        IN  \A pair \in AdjacentPairs(bar) :
                LET A == bar.levels[pair[1]]
                    B == bar.levels[pair[2]]
                    both == {pair[1], pair[2]}
                IN  /\ (A.sellVol > 0 /\ B.buyVol >= IMBALANCE_RATIO * A.sellVol)
                          => Recorded(bar, both, "ask_imbalance")
                    /\ (B.buyVol > 0 /\ A.sellVol >= IMBALANCE_RATIO * B.buyVol)
                          => Recorded(bar, both, "bid_imbalance")

\* what the code records: 'ask_imbalance' at A for A.buyVol against
\* B.sellVol, 'bid_imbalance' at B for B.buyVol against A.sellVol
C33_ImbalancesAsComputed ==
    eng.currentBar # {} =>
        LET bar == Val(eng.currentBar)
        IN  \A pair \in AdjacentPairs(bar) :
                LET A == bar.levels[pair[1]]
                    B == bar.levels[pair[2]]
                IN  /\ Recorded(bar, {pair[1]}, "ask_imbalance")
                          <=> (/\ B.sellVol > 0
                               /\ A.buyVol >= IMBALANCE_RATIO * B.sellVol)
                    /\ Recorded(bar, {pair[2]}, "bid_imbalance")
                          <=> (/\ A.sellVol > 0
                               /\ B.buyVol >= IMBALANCE_RATIO * A.sellVol)
                    /\ ~Recorded(bar, {pair[2]}, "ask_imbalance")
                    /\ ~Recorded(bar, {pair[1]}, "bid_imbalance")

(***************************************************************************)
(* C34: alerts emitted by the AggregationEngine are throttled per type:    *)
(* for any sequence of trades and depth updates, two 'alert' events of one *)
(* type that the engine emits are more than a throttle window (throttleMs) *)
(* apart, a second qualifying event within the window producing no alert.  *)
(***************************************************************************)
C34_EngineAlertsAreThrottled ==
    \A type \in EngineAlertTypes :
        Len(engEmitted[type]) = 2 =>
            engEmitted[type][2] - engEmitted[type][1] > throttleMs

\* what the code does on the depth path: every update that leaves an
\* imbalanced book emits a dom_imbalance alert, whatever was emitted before
C34_EveryImbalancedBookAlerts ==
    LET metrics == AggregationEngine_analyzeDOMBalance(eng)
    IN  (/\ metrics # {}
         /\ \/ Val(metrics).ratio >= domAlertHigh
            \/ Val(metrics).ratio <= domAlertLow)
            => \E i \in DOMAIN engDepthEvents :
                  /\ engDepthEvents[i].event = "alert"
                  /\ engDepthEvents[i].type = "dom_imbalance"

(***************************************************************************)
(* C35: footprint volume accounting is conserved: after any sequence of    *)
(* ingests, unknown-side ticks included, the current bar has totalVolume = *)
(* totalBidVol + totalAskVol, and totalBidVol and totalAskVol are the sums *)
(* of bidVol and askVol over the bar's levels.                             *)
(***************************************************************************)
RECURSIVE SumBidVol(_, _)
SumBidVol(levels, prices) ==
    IF prices = {} THEN 0
    ELSE LET p == CHOOSE q \in prices : TRUE
         IN  levels[p].bidVol + SumBidVol(levels, prices \ {p})

RECURSIVE SumAskVol(_, _)
SumAskVol(levels, prices) ==
    IF prices = {} THEN 0
    ELSE LET p == CHOOSE q \in prices : TRUE
         IN  levels[p].askVol + SumAskVol(levels, prices \ {p})

C35_VolumeIsConserved ==
    fp.currentBar # {} =>
        LET bar == Val(fp.currentBar)
        IN  /\ bar.totalVolume = bar.totalBidVol + bar.totalAskVol
            /\ bar.totalBidVol = SumBidVol(bar.levels, DOMAIN bar.levels)
            /\ bar.totalAskVol = SumAskVol(bar.levels, DOMAIN bar.levels)
            /\ bar.totalVolume
                  = Whole(SumSizes(fpBarTicks, "buy")
                          + SumSizes(fpBarTicks, "sell")
                          + SumSizes(fpBarTicks, "unknown"))

\* a bar with two levels that holds an unknown-side tick of odd size next to
\* a tick with a known side
C35_Witness ==
    /\ fp.currentBar # {}
    /\ Cardinality(DOMAIN Val(fp.currentBar).levels) = 2
    /\ \E i \in DOMAIN fpBarTicks :
          fpBarTicks[i].side = "unknown" /\ fpBarTicks[i].size = 1
    /\ SidesOf(fpBarTicks) \cap {"buy", "sell"} # {}

(***************************************************************************)
(* C36: for a FootprintAggregator with imbalanceRatio > 1, an ask          *)
(* imbalance and a bid imbalance are never both flagged for the same       *)
(* adjacent pair of levels, so a finalized bar has at most (number of      *)
(* occupied levels - 1) imbalance entries.                                 *)
(***************************************************************************)
C36_OneImbalancePerPair ==
    imbalanceRatio > 1 =>
        \A bar \in FinalizedBars :
            /\ \A pair \in AdjacentPairs(bar) :
                  ~(Flagged(bar, pair[1], "ask") /\ Flagged(bar, pair[2], "bid"))
            /\ Len(bar.imbalances)
                  <= Max2(Cardinality(DOMAIN bar.levels) - 1, 0)

\* a finalized bar with two levels, both sides traded on each, and a single
\* imbalance entry, a 'bid' one
C36_Witness ==
    \E bar \in FinalizedBars :
        /\ Cardinality(DOMAIN bar.levels) = 2
        /\ \A p \in DOMAIN bar.levels :
              bar.levels[p].bidVol > 0 /\ bar.levels[p].askVol > 0
        /\ Len(bar.imbalances) = 1
        /\ bar.imbalances[1].side = "bid"

(***************************************************************************)
(* C37: on every point returned by CvdCalculator.ingest, barDelta is the   *)
(* sum of the signed deltas of the ticks ingested since the later of the   *)
(* last bucket change and the last resetSession(); in particular the first *)
(* point returned after resetSession() has barDelta = cvd.                 *)
(***************************************************************************)
\* the signed deltas of the ticks at the end of `ticks` that share the last
\* tick's bucket
RECURSIVE TrailingBucketDelta(_)
TrailingBucketDelta(ticks) ==
    IF ticks = <<>> THEN 0
    ELSE LET n == Len(ticks)
         IN  SignedDelta(ticks[n])
             + (IF n > 1
                   /\ BarKey(ticks[n - 1].ts, cvdBarDurationMs)
                        = BarKey(ticks[n].ts, cvdBarDurationMs)
                THEN TrailingBucketDelta(SubSeq(ticks, 1, n - 1))
                ELSE 0)

\* cvdTicks holds the ticks ingested since the last resetSession()
C37_BarDeltaCarriesNothingOver ==
    cvdOut.op = "ingest" =>
        /\ cvdOut.val[1].barDelta = TrailingBucketDelta(cvdTicks)
        /\ Len(cvdTicks) = 1 => cvdOut.val[1].barDelta = cvdOut.val[1].cvd

\* without a resetSession() the statement holds
C37_BarDeltaWithoutReset ==
    (cvdOut.op = "ingest" /\ Len(cvdTicks) = cvdN) =>
        cvdOut.val[1].barDelta = TrailingBucketDelta(cvdTicks)

(***************************************************************************)
(* C38: for a loaded set of N ticks and any interleaving of pause() and    *)
(* play() calls in which play() is only called while the replay is not     *)
(* running, by the time the replay reaches Complete each of the N ticks    *)
(* has been delivered exactly once and in stored order; until then the     *)
(* ticks delivered are the first `position` ticks of the set, in order.    *)
(***************************************************************************)
LoadedIds == [i \in 1..Len(replay.ticks) |-> replay.ticks[i].id]

IsPrefix(s, t) == Len(s) <= Len(t) /\ s = SubSeq(t, 1, Len(s))

C38_EachTickOnceInOrder ==
    /\ IsPrefix(rpLog, LoadedIds)
    /\ Len(rpLog) = Status.position
    /\ Complete => rpLog = LoadedIds

\* a replay of the whole store that was paused part-way, resumed, and ran
\* to Complete
C38_Witness ==
    /\ rpOut.call = "play" /\ rpOut.prev = "pause"
    /\ rpOut.before.position > 0
    /\ rpOut.before.position < Status.total - 1
    /\ Status.total = MaxStored
    /\ Complete
    /\ rpLog = LoadedIds

(***************************************************************************)
(* C39: replay is deterministic with respect to pausing: for the           *)
(* ReplayEngine that drives the AggregationEngine, the engine state at     *)
(* completion of a replay (cvd, sessionCvd, current bar, completed bars,   *)
(* recent trades) is the same whether the run was uninterrupted or was     *)
(* paused and resumed.                                                     *)
(***************************************************************************)
\* the engine after onTrade of the first n of `ticks`, from e
RECURSIVE Ingested(_, _, _)
Ingested(e, ticks, n) ==
    IF n = 0 THEN e
    ELSE AggregationEngine_onTrade(
            Ingested(e, ticks, n - 1), ticks[n], ticks[n].side)

\* the engine at the completion of an uninterrupted run: play() resets the
\* session and every loaded tick is ingested
Uninterrupted ==
    Ingested(AggregationEngine_resetSession(AggregationEngine_new),
             replay.ticks, Len(replay.ticks))

SessionState(e) ==
    <<e.cvd, e.sessionCvd, e.currentBar, e.completedBars, e.trades>>

\* the replay was played and has delivered every loaded tick
ReplayCompleted ==
    /\ rpImpl = "engine"
    /\ Complete
    /\ Status.total > 0
    /\ rpLog = LoadedIds

C39_PausingLeavesTheResultAlone ==
    ReplayCompleted => SessionState(eng) = SessionState(Uninterrupted)

\* a run that was not paused ends with the state of the uninterrupted run
C39_UnpausedRunIsUninterrupted ==
    (ReplayCompleted /\ rpOut.call = "play" /\ rpOut.prev = "load")
        => SessionState(eng) = SessionState(Uninterrupted)

\* what the code does: the engine holds what was ingested since the last
\* play(), which resets the session
C39_ResultIsSinceLastPlay ==
    (ReplayCompleted /\ rpOut.call = "play") =>
        LET resumedAt == rpOut.before.position
            rest == SubSeq(replay.ticks, resumedAt + 1, Len(replay.ticks))
        IN  SessionState(eng)
              = SessionState(
                    Ingested(AggregationEngine_resetSession(
                                 AggregationEngine_new), rest, Len(rest)))

(***************************************************************************)
(* C40: an AlertEvaluator evaluation that the throttle drops leaves the    *)
(* throttle state unchanged and its alert is not returned by a later       *)
(* evaluation: the last-fired timestamp of a type changes only when an     *)
(* alert of that type is returned, so two returned alerts of one type are  *)
(* more than throttleMs apart and a qualifying evaluation more than        *)
(* throttleMs after the last returned alert of that type fires.            *)
(***************************************************************************)
\* the evaluation's input meets the large_print condition
QualifiesLarge(in) == in.metrics # {} /\ Val(in.metrics).isLarge

C40_EvaluateStep ==
    /\ \A type \in AlertTypes :
          ae'.recentAlerts[type] # ae.recentAlerts[type] =>
              /\ aeN' = aeN + 1
              /\ type \in TypesOf(aeOut'.alerts)
              /\ ae'.recentAlerts[type] = {aeNow}
    /\ aeN' = aeN + 1 =>
          LET returned == "large_print" \in TypesOf(aeOut'.alerts)
              last == aeFired["large_print"]
              elapsed == last = {} \/ aeNow - Val(last) > throttleMs
          IN  /\ returned => QualifiesLarge(aeOut'.in) /\ elapsed
              /\ (QualifiesLarge(aeOut'.in) /\ elapsed) => returned

C40_DroppedAlertLeavesNoTrace == [][C40_EvaluateStep]_vars

\* the last-fired timestamp of a type is the time its last alert was returned
C40_LastFiredIsLastReturned ==
    \A type \in AlertTypes : ae.recentAlerts[type] = aeFired[type]

\* an alert, a qualifying evaluation dropped within the window, and an
\* alert again once the window of the first has elapsed, less than a
\* window after the dropped one
C40_Witness ==
    /\ Len(aeLargeLog) = 3
    /\ aeLargeLog[1].fired /\ ~aeLargeLog[2].fired /\ aeLargeLog[3].fired
    /\ aeLargeLog[3].ts - aeLargeLog[1].ts > throttleMs
    /\ aeLargeLog[3].ts - aeLargeLog[2].ts <= throttleMs
    /\ ae.recentAlerts["large_print"] = {aeLargeLog[3].ts}

=============================================================================
